---- MODULE Spec2Model ----
(***************************************************************************)
(* Taxpayer authentication and secure transport of the GST Returns API     *)
(* client (india_compliance/gst_india/api_classes/taxpayer_base.py).       *)
(*                                                                         *)
(* Every python method is an operator from a call context to the SET of    *)
(* contexts the call can end in: the gateway's answers and the certificate *)
(* the static endpoint serves are the nondeterministic inputs, drawn where *)
(* the code consumes them.  A context carries the API object (self), the   *)
(* GST Credential rows, the stored public certificate, the cache markers,  *)
(* the after-job hooks, the log of what the call sent, fetched and wrote,  *)
(* the pending exception and the returned value.  An action runs one whole *)
(* handler on one API object and keeps the state of the context it ended   *)
(* in; what a call sent and returned is read off the contexts the handler  *)
(* yields from the state it is called in.                                  *)
(***************************************************************************)
EXTENDS Integers, Sequences, FiniteSets, TLC

VARIABLES db, cert, marker, now, api, after_job

vars == <<db, cert, marker, now, api, after_job>>

(* ------------------------------ bounds --------------------------------- *)

\* the clock stops here
MaxTime == 3
\* largest "expiry" (minutes) the gateway declares
MaxExpiry == 2
\* most files a download lists
MaxUrls == 3

Insts == {1}
Gstins == {"g1"}
Tokens == {"t1", "t2"}
AppKeys == {"a1"}
Otps == {"otp1"}

(* --------------------------- values ------------------------------------ *)

\* python None / empty for a token, a key text, a datetime
NoToken == "none"
NoExpiry == 0

\* a certificate: its PEM text (id) and the not_valid_after parsed from it
NoCert == [id |-> "none", not_valid_after |-> 0]
Certs == {[id |-> "c1", not_valid_after |-> 1], [id |-> "c2", not_valid_after |-> 2]}

\* a ciphertext: what was encrypted, under which key, and whether PKCS
\* unpadding happens to succeed (yielding garbage) under any other key
NoCt == [pt |-> "none", key |-> "none", pad |-> FALSE]
NoHmac == [d |-> "none", k |-> "none"]

Username(g) == "user_" \o g

(* --------------------------- CryptoOps --------------------------------- *)

aes_encrypt_data(pt, key) == [pt |-> pt, key |-> key, pad |-> FALSE]

\* decrypting raises under no key (an empty one), and under another key
\* unless the ciphertext happens to unpad (it then yields garbage)
aes_decrypt_fails(ct, key) == key = "" \/ (ct.key # key /\ ~ct.pad)

aes_decrypt_data(ct, key) == IF ct.key = key THEN ct.pt ELSE "garbage"

encrypt_using_public_key(pt, certificate) == [pt |-> pt, key |-> certificate.id, pad |-> FALSE]

hmac_sha256(data, key) == [d |-> data, k |-> key]

\* base64 text of the key bytes, as the standard alphabet gives it
b64encode(bytes) ==
    CASE bytes = "" -> ""
      [] bytes = "k1" -> "azE="
      [] bytes = "k2" -> "azI="
      [] bytes = "p1" -> "cDE="
      [] bytes = "j1" -> "ajE="
      [] bytes = "j2" -> "ajI="
      [] bytes = "j3" -> "ajM="
      [] bytes = "j4" -> "ajQ="
      [] bytes = "garbage" -> "Z2FyYmFnZQ=="
      [] OTHER -> "?"

b64decode(text) ==
    CASE text = "" -> ""
      [] text = "azE=" -> "k1"
      [] text = "azI=" -> "k2"
      [] text = "cDE=" -> "p1"
      [] text = "ajE=" -> "j1"
      [] text = "ajI=" -> "j2"
      [] text = "ajM=" -> "j3"
      [] text = "ajQ=" -> "j4"
      [] text = "Z2FyYmFnZQ==" -> "garbage"
      [] OTHER -> "?"

(* --------------------------- responses --------------------------------- *)

\* a parsed gateway response (frappe._dict); nil marks python None
RespBase ==
    [nil |-> FALSE, status_cd |-> 1, error_cd |-> "none", message |-> "none",
     auth_token |-> NoToken, expiry |-> 0, sek |-> NoCt, rek |-> NoCt,
     data |-> NoCt, hmac |-> NoHmac, error_type |-> "none", gstin |-> "none",
     result |-> "none"]

None_ == [RespBase EXCEPT !.nil = TRUE]

NoThrown == [text |-> "none", body |-> None_]

\* a request body (json); nil marks a request without one.  Before
\* encryption app_key and otp are in app_key_plain/otp_plain, after it in
\* app_key/otp as ciphertexts
NoJson ==
    [nil |-> TRUE, action |-> "none", app_key_plain |-> "", otp_plain |-> "none",
     app_key |-> NoCt, otp |-> NoCt, username |-> "none", auth_token |-> NoToken]

Json(action, app_key, username, otp, auth_token) ==
    [NoJson EXCEPT !.nil = FALSE, !.action = action, !.app_key_plain = app_key,
                   !.username = username, !.otp_plain = otp, !.auth_token = auth_token]

(* --------------------------- call context ------------------------------ *)

NoSelf ==
    [gstin |-> "none", username |-> "none", app_key |-> "", auth_token |-> NoToken,
     session_key |-> "", session_expiry |-> NoExpiry, job |-> FALSE]

NoRow == [app_key |-> "", auth_token |-> NoToken, session_key |-> "", session_expiry |-> NoExpiry]

Ctx(i) ==
    [inst |-> i, self |-> api[i], db |-> db, cert |-> cert, marker |-> marker,
     hooks |-> after_job, now |-> now, log |-> <<>>, exc |-> "none",
     thrown |-> NoThrown, ret |-> None_, tok |-> NoToken, req |-> NoJson,
     flag |-> FALSE]

\* a log entry: a request sent (ev "send": its action, the auth token it
\* carried, the response it got), a certificate fetched (ev "fetch": by
\* whom, what was served) or a credential write (ev "db": which, for whom)
Entry(ev, what, tok, resp, crt) ==
    [ev |-> ev, what |-> what, tok |-> tok, resp |-> resp, cert |-> crt, json |-> NoJson]

Logged(c, e) == [c EXCEPT !.log = Append(@, e)]

Raise(c, e, text, body) == [c EXCEPT !.exc = e, !.thrown = [text |-> text, body |-> body]]

frappe_throw(c, text, body) == Raise(c, "ValidationError", text, body)

\* sequential composition: the statements after a raise do not run
Bind(S, F(_)) == UNION {IF c.exc = "none" THEN F(c) ELSE {c} : c \in S}

Count(log, P(_)) == Cardinality({n \in 1..Len(log) : P(log[n])})

(* --------------------------- CertificateCache -------------------------- *)

\* the served certificate is stored without being compared
get_gstn_public_certificate_NoCompare(c, error_message, by) ==
    {[Logged(c, Entry("fetch", by, NoToken, None_, served)) EXCEPT !.cert = served]
     : served \in Certs}

\* PublicCertificate.get_gstn_public_certificate: one GET of the static
\* endpoint; the served certificate replaces the stored one unless equal
get_gstn_public_certificate(c, error_message, by) ==
    {LET c1 == Logged(c, Entry("fetch", by, NoToken, None_, served))
     IN IF served = c1.cert
        THEN frappe_throw(c1, IF error_message # "none" THEN error_message
                              ELSE "Public Certificate is already up to date", None_)
        ELSE [c1 EXCEPT !.cert = served]
     : served \in Certs}

\* only an absent certificate is fetched, an expired one is served
get_public_certificate_NoExpiryCheck(c) ==
    IF c.cert = NoCert
    THEN get_gstn_public_certificate(c, "none", "get_public_certificate")
    ELSE {c}

\* TaxpayerAuthenticate.get_public_certificate; the certificate returned
\* is the stored one of the context it ends in
get_public_certificate(c) ==
    LET S1 == IF c.cert = NoCert
              THEN get_gstn_public_certificate(c, "none", "get_public_certificate")
              ELSE {c}
    IN Bind(S1, LAMBDA c1 :
            IF c1.cert.not_valid_after < c1.now
            THEN get_gstn_public_certificate(c1, "none", "get_public_certificate")
            ELSE {c1})

(* --------------------------- token lifecycle --------------------------- *)

\* a token whose expiry is the current time still counts as live
get_auth_token_AtExpiry(self, t) ==
    IF self.auth_token = NoToken THEN NoToken
    ELSE IF self.session_expiry = NoExpiry THEN NoToken
    ELSE IF self.session_expiry < t THEN NoToken
    ELSE self.auth_token

\* TaxpayerAuthenticate.get_auth_token
get_auth_token(self, t) ==
    IF self.auth_token = NoToken THEN NoToken
    ELSE IF self.session_expiry = NoExpiry THEN NoToken
    ELSE IF self.session_expiry <= t THEN NoToken
    ELSE self.auth_token

\* TaxpayerBaseAPI.generate_app_key: a fresh random key, persisted
generate_app_key(c, g) ==
    {[c EXCEPT !.db[g].app_key = k,
               !.self.app_key = k,
               !.log = Append(@, Entry("db", "app_key", g, None_, NoCert))]
     : k \in AppKeys}

\* TaxpayerBaseAPI.setup and _fetch_credentials
setup(c, g, job) ==
    LET row == c.db[g]
        c1 == [c EXCEPT !.self = [gstin |-> g, username |-> Username(g),
                                  app_key |-> row.app_key,
                                  auth_token |-> row.auth_token,
                                  session_key |-> b64decode(row.session_key),
                                  session_expiry |-> row.session_expiry,
                                  job |-> job]]
    IN IF row.app_key = "" THEN generate_app_key(c1, g) ELSE {c1}

(* --------------------------- gateway ----------------------------------- *)

\* error codes the gateway is let answer with: one per outcome of the
\* table, one the table maps to plain text, one unknown
GatewayErrorCodes == {"RETOTPREQUEST", "AUTH4033", "AUTH158", "TEC4002", "RET13506", "XYZ999"}

ErrorResp(code, message) == [RespBase EXCEPT !.status_cd = 0, !.error_cd = code, !.message = message]

\* status_cd 0: an error code with its message, and a body with no message
ErrorResponses ==
    {ErrorResp(code, "m1") : code \in GatewayErrorCodes}
        \cup {ErrorResp("XYZ999", "none"), ErrorResp("none", "none")}

\* the acknowledgement of an accepted request
Ack == RespBase

\* expiry and sek as the gateway can send them with a token: both (the
\* session key under the app key it was sent), either alone, neither, and
\* a sek under another app key (unpadding to garbage, or not unpadding)
Rotations(app_key) ==
    {[expiry |-> e, sek |-> aes_encrypt_data("k1", app_key)] : e \in 1..MaxExpiry}
    \cup {[expiry |-> 0, sek |-> aes_encrypt_data("k2", app_key)],
          [expiry |-> 1, sek |-> NoCt],
          [expiry |-> 0, sek |-> NoCt]}
    \cup {[expiry |-> 1, sek |-> [pt |-> "k1", key |-> "a0", pad |-> p]] : p \in BOOLEAN}

\* responses carrying auth_token, and one carrying expiry and sek only
TokenResponses(app_key) ==
    {[RespBase EXCEPT !.auth_token = t, !.expiry = x.expiry, !.sek = x.sek]
        : t \in Tokens, x \in Rotations(app_key)}
    \cup {[RespBase EXCEPT !.expiry = 1, !.sek = aes_encrypt_data("k2", app_key)]}

GoodData == aes_encrypt_data("cDE=", "r1")

\* responses carrying a business payload: rek (absent, under the session
\* key, under another key), data, hmac (absent, right, wrong), and one
\* that carries auth_token as well
DataResponses(session_key) ==
    {[RespBase EXCEPT !.rek = r, !.data = GoodData, !.hmac = h]
        : r \in {NoCt, aes_encrypt_data("r1", session_key),
                 [pt |-> "r1", key |-> "kx", pad |-> TRUE]},
          h \in {NoHmac, hmac_sha256("cDE=", "r1"), hmac_sha256("cDE=", "bad")}}
    \cup {[RespBase EXCEPT !.auth_token = "t2", !.expiry = 1,
                           !.rek = aes_encrypt_data("r1", session_key),
                           !.data = GoodData, !.hmac = hmac_sha256("cDE=", "bad")]}

\* what the authenticate endpoint answers an OTPREQUEST and an AUTHTOKEN
OtpResponses(c) == {Ack} \cup ErrorResponses

AuthResponses(c) == ErrorResponses \cup TokenResponses(c.self.app_key)

BusinessResponses(c) == {Ack} \cup ErrorResponses \cup DataResponses(c.self.session_key)

(* --------------------------- ErrorClassifier --------------------------- *)

\* TaxpayerAuthenticate.IGNORED_ERROR_CODES
TaxpayerAuthenticate_IGNORED_ERROR_CODES ==
    [code \in {"RETOTPREQUEST", "EVCREQUEST", "AUTH158", "AUTH4033", "AUTH4038",
               "TEC4002", "RET13506", "RET00003", "RET09001"} |->
        CASE code = "RETOTPREQUEST" -> "otp_requested"
          [] code = "EVCREQUEST" -> "otp_requested"
          [] code = "AUTH158" -> "authorization_failed"
          [] code = "AUTH4033" -> "invalid_otp"
          [] code = "AUTH4038" -> "authorization_failed"
          [] code = "TEC4002" -> "invalid_public_key"
          [] code = "RET13506" -> "OTP is either expired or incorrect"
          [] code = "RET00003" -> "Return Form already ready to be filed"
          [] code = "RET09001" -> "Latest Summary is not available. Please generate summary and try again."]

\* TaxpayerBaseAPI.IGNORED_ERROR_CODES
IGNORED_ERROR_CODES ==
    [code \in DOMAIN TaxpayerAuthenticate_IGNORED_ERROR_CODES \cup {"RT-R1R3BAV-1007"} |->
        IF code = "RT-R1R3BAV-1007" THEN "authorization_failed"
        ELSE TaxpayerAuthenticate_IGNORED_ERROR_CODES[code]]

\* TaxpayerBaseAPI.is_ignored_error, on the response in c.ret; its return
\* value is c.flag
is_ignored_error(c) ==
    LET error_code == c.ret.error_cd
    IN IF error_code \in DOMAIN IGNORED_ERROR_CODES
       THEN LET c1 == [c EXCEPT !.ret.error_type = IGNORED_ERROR_CODES[error_code],
                                !.ret.gstin = c.self.gstin]
            IN IF c1.ret.error_type = "otp_requested"
               THEN Raise(c1, "OTPRequestedError", "none", c1.ret)
               ELSE IF c1.ret.error_type = "invalid_otp"
               THEN Raise(c1, "InvalidOTPError", "none", c1.ret)
               ELSE [c1 EXCEPT !.flag = TRUE]
       ELSE [c EXCEPT !.flag = FALSE]

\* an error the table does not know is let through like an ignored one
handle_error_response_LetsThrough(c) ==
    LET success_value == c.ret.status_cd # 0
        c1 == IF ~success_value THEN is_ignored_error(c) ELSE c
    IN Bind({c1}, LAMBDA c3 :
            IF c3.ret.error_type = "invalid_public_key"
            THEN get_gstn_public_certificate(c3,
                    "Looks like Public Key of GSTN used for encryption is Invalid",
                    "handle_error_response")
            ELSE {c3})

\* the table is consulted whatever the status_cd of the response
handle_error_response_ClassifiesAll(c) ==
    LET success_value == c.ret.status_cd # 0
        c1 == is_ignored_error(c)
        c2 == IF c1.exc # "none" THEN c1
              ELSE IF ~success_value /\ ~c1.flag
              THEN frappe_throw(c1, IF c1.ret.message # "none" THEN c1.ret.message
                                    ELSE "as_json(response)", c1.ret)
              ELSE c1
    IN Bind({c2}, LAMBDA c3 :
            IF c3.ret.error_type = "invalid_public_key"
            THEN get_gstn_public_certificate(c3,
                    "Looks like Public Key of GSTN used for encryption is Invalid",
                    "handle_error_response")
            ELSE {c3})

\* TaxpayerBaseAPI.handle_error_response, on the response in c.ret
handle_error_response(c) ==
    LET success_value == c.ret.status_cd # 0
        c1 == IF ~success_value THEN is_ignored_error(c) ELSE c
        c2 == IF c1.exc # "none" THEN c1
              ELSE IF ~success_value /\ ~c1.flag
              THEN frappe_throw(c1, IF c1.ret.message # "none" THEN c1.ret.message
                                    ELSE "as_json(response)", c1.ret)
              ELSE c1
    IN Bind({c2}, LAMBDA c3 :
            IF c3.ret.error_type = "invalid_public_key"
            THEN get_gstn_public_certificate(c3,
                    "Looks like Public Key of GSTN used for encryption is Invalid",
                    "handle_error_response")
            ELSE {c3})

(* --------------------------- transformation ---------------------------- *)

\* the rotation is kept in the object and never written to the row
TaxpayerAuthenticate_decrypt_response_NoWrite(c) ==
    LET r == c.ret
        c1 == IF r.auth_token # NoToken
              THEN [c EXCEPT !.self.auth_token = r.auth_token] ELSE c
        c2 == IF r.expiry # 0
              THEN [c1 EXCEPT !.self.session_expiry = c.now + r.expiry] ELSE c1
        sek_fails == r.sek # NoCt /\ aes_decrypt_fails(r.sek, c.self.app_key)
    IN IF sek_fails THEN Raise(c2, "ValueError", "aes_decrypt_data", None_)
       ELSE IF r.sek # NoCt
       THEN [c2 EXCEPT !.self.session_key = aes_decrypt_data(r.sek, c.self.app_key)]
       ELSE c2

\* the whole record is written: a field the response lacks is nulled
TaxpayerAuthenticate_decrypt_response_WritesAll(c) ==
    LET r == c.ret
        g == c.self.gstin
        c1 == IF r.auth_token # NoToken
              THEN [c EXCEPT !.self.auth_token = r.auth_token] ELSE c
        c2 == IF r.expiry # 0
              THEN [c1 EXCEPT !.self.session_expiry = c.now + r.expiry] ELSE c1
        sek_fails == r.sek # NoCt /\ aes_decrypt_fails(r.sek, c.self.app_key)
        c3 == IF r.sek # NoCt /\ ~sek_fails
              THEN [c2 EXCEPT !.self.session_key = aes_decrypt_data(r.sek, c.self.app_key)]
              ELSE c2
        row == [app_key |-> c.db[g].app_key,
                auth_token |-> r.auth_token,
                session_expiry |-> IF r.expiry # 0 THEN c3.self.session_expiry ELSE NoExpiry,
                session_key |-> IF r.sek # NoCt THEN b64encode(c3.self.session_key) ELSE ""]
    IN IF sek_fails THEN Raise(c2, "ValueError", "aes_decrypt_data", None_)
       ELSE [c3 EXCEPT !.db[g] = row,
                       !.log = Append(@, Entry("db", "rotate", g, r, NoCert))]

\* TaxpayerAuthenticate.decrypt_response, on the response in c.ret
TaxpayerAuthenticate_decrypt_response(c) ==
    LET r == c.ret
        g == c.self.gstin
        c1 == IF r.auth_token # NoToken
              THEN [c EXCEPT !.self.auth_token = r.auth_token] ELSE c
        c2 == IF r.expiry # 0
              THEN [c1 EXCEPT !.self.session_expiry = c.now + r.expiry] ELSE c1
        sek_fails == r.sek # NoCt /\ aes_decrypt_fails(r.sek, c.self.app_key)
        c3 == IF r.sek # NoCt /\ ~sek_fails
              THEN [c2 EXCEPT !.self.session_key = aes_decrypt_data(r.sek, c.self.app_key)]
              ELSE c2
        values == r.auth_token # NoToken \/ r.expiry # 0 \/ r.sek # NoCt
        row == [app_key |-> c.db[g].app_key,
                auth_token |-> IF r.auth_token # NoToken THEN r.auth_token
                               ELSE c.db[g].auth_token,
                session_expiry |-> IF r.expiry # 0 THEN c3.self.session_expiry
                                   ELSE c.db[g].session_expiry,
                session_key |-> IF r.sek # NoCt THEN b64encode(c3.self.session_key)
                                ELSE c.db[g].session_key]
    IN IF sek_fails THEN Raise(c2, "ValueError", "aes_decrypt_data", None_)
       ELSE IF values
       THEN [c3 EXCEPT !.db[g] = row,
                       !.log = Append(@, Entry("db", "rotate", g, r, NoCert))]
       ELSE c3

\* the hmac is never compared
decrypt_response_NoHmacCheck(c) ==
    LET r == c.ret
        rek_fails == r.rek # NoCt /\ aes_decrypt_fails(r.rek, c.self.session_key)
        decrypted_rek == IF r.rek # NoCt THEN aes_decrypt_data(r.rek, c.self.session_key)
                         ELSE "none"
        data_fails == decrypted_rek = "none" \/ aes_decrypt_fails(r.data, decrypted_rek)
        decrypted_data == aes_decrypt_data(r.data, decrypted_rek)
        c1 == [c EXCEPT !.ret.data = NoCt]
    IN IF r.auth_token # NoToken THEN TaxpayerAuthenticate_decrypt_response(c)
       ELSE IF rek_fails THEN Raise(c, "ValueError", "aes_decrypt_data", None_)
       ELSE IF r.data = NoCt THEN c
       ELSE IF data_fails THEN Raise(c, "ValueError", "aes_decrypt_data", None_)
       ELSE IF decrypted_data = "garbage"
       THEN Raise(c1, "ValueError", "parse_json", None_)
       ELSE [c1 EXCEPT !.ret.result = b64decode(decrypted_data)]

\* expiry or sek alone, without auth_token, is taken as a rotation too
decrypt_response_RotatesAlways(c) ==
    LET r == c.ret
        rek_fails == r.rek # NoCt /\ aes_decrypt_fails(r.rek, c.self.session_key)
        decrypted_rek == IF r.rek # NoCt THEN aes_decrypt_data(r.rek, c.self.session_key)
                         ELSE "none"
        data_fails == decrypted_rek = "none" \/ aes_decrypt_fails(r.data, decrypted_rek)
        decrypted_data == aes_decrypt_data(r.data, decrypted_rek)
        c1 == [c EXCEPT !.ret.data = NoCt]
    IN IF r.auth_token # NoToken \/ r.expiry # 0 \/ r.sek # NoCt
       THEN TaxpayerAuthenticate_decrypt_response(c)
       ELSE IF rek_fails THEN Raise(c, "ValueError", "aes_decrypt_data", None_)
       ELSE IF r.data = NoCt THEN c
       ELSE IF data_fails THEN Raise(c, "ValueError", "aes_decrypt_data", None_)
       ELSE IF r.hmac # NoHmac /\ hmac_sha256(decrypted_data, decrypted_rek) # r.hmac
       THEN frappe_throw(c1, "HMAC mismatch", None_)
       ELSE IF decrypted_data = "garbage"
       THEN Raise(c1, "ValueError", "parse_json", None_)
       ELSE [c1 EXCEPT !.ret.result = b64decode(decrypted_data)]

\* TaxpayerBaseAPI.decrypt_response, on the response in c.ret
decrypt_response(c) ==
    LET r == c.ret
        rek_fails == r.rek # NoCt /\ aes_decrypt_fails(r.rek, c.self.session_key)
        decrypted_rek == IF r.rek # NoCt THEN aes_decrypt_data(r.rek, c.self.session_key)
                         ELSE "none"
        data_fails == decrypted_rek = "none" \/ aes_decrypt_fails(r.data, decrypted_rek)
        decrypted_data == aes_decrypt_data(r.data, decrypted_rek)
        c1 == [c EXCEPT !.ret.data = NoCt]
    IN IF r.auth_token # NoToken THEN TaxpayerAuthenticate_decrypt_response(c)
       ELSE IF rek_fails THEN Raise(c, "ValueError", "aes_decrypt_data", None_)
       ELSE IF r.data = NoCt THEN c
       ELSE IF data_fails THEN Raise(c, "ValueError", "aes_decrypt_data", None_)
       ELSE IF r.hmac # NoHmac /\ hmac_sha256(decrypted_data, decrypted_rek) # r.hmac
       THEN frappe_throw(c1, "HMAC mismatch", None_)
       ELSE IF decrypted_data = "garbage"
       THEN Raise(c1, "ValueError", "parse_json", None_)
       ELSE [c1 EXCEPT !.ret.result = b64decode(decrypted_data)]

\* TaxpayerBaseAPI.process_response: r is the parsed response
process_response(c, r) ==
    Bind(handle_error_response([c EXCEPT !.ret = r]), LAMBDA c1 : {decrypt_response(c1)})

\* the app key goes under the public key whatever the action
TaxpayerAuthenticate_encrypt_request_AlwaysPublic(c, json) ==
    IF json.nil THEN {[c EXCEPT !.req = json]}
    ELSE LET otp == IF json.otp_plain # "none"
                    THEN aes_encrypt_data(json.otp_plain, c.self.app_key) ELSE NoCt
             S == IF json.app_key_plain = "" THEN {[c EXCEPT !.req = json]}
                  ELSE Bind(get_public_certificate(c), LAMBDA c1 :
                            {[c1 EXCEPT !.req = [json EXCEPT !.app_key =
                                encrypt_using_public_key(c1.self.app_key, c1.cert)]]})
         IN Bind(S, LAMBDA c2 : {[c2 EXCEPT !.req.otp = otp]})

\* TaxpayerAuthenticate.encrypt_request; the encrypted body is c.req
TaxpayerAuthenticate_encrypt_request(c, json) ==
    IF json.nil THEN {[c EXCEPT !.req = json]}
    ELSE LET otp == IF json.otp_plain # "none"
                    THEN aes_encrypt_data(json.otp_plain, c.self.app_key) ELSE NoCt
             S == IF json.app_key_plain = "" THEN {[c EXCEPT !.req = json]}
                  ELSE IF json.action = "REFRESHTOKEN"
                  THEN {[c EXCEPT !.req = [json EXCEPT !.app_key =
                            aes_encrypt_data(c.self.app_key, c.self.session_key)]]}
                  ELSE Bind(get_public_certificate(c), LAMBDA c1 :
                            {[c1 EXCEPT !.req = [json EXCEPT !.app_key =
                                encrypt_using_public_key(c1.self.app_key, c1.cert)]]})
         IN Bind(S, LAMBDA c2 : {[c2 EXCEPT !.req.otp = otp]})

\* TaxpayerBaseAPI.encrypt_request (the bodies sent here carry no "data")
encrypt_request(c, json) == TaxpayerAuthenticate_encrypt_request(c, json)

\* TaxpayerBaseAPI.before_request
before_request(c, json) == encrypt_request(c, json)

\* what the gateway can answer a request of each kind
ResponsesFor(c, action) ==
    CASE action = "OTPREQUEST" -> OtpResponses(c)
      [] action = "AUTHTOKEN" -> AuthResponses(c)
      [] action = "REFRESHTOKEN" -> AuthResponses(c)
      [] OTHER -> BusinessResponses(c)

\* BaseAPI.get/post/put: before_request, the exchange with the gateway
\* (any response it can give), process_response; the processed response
\* is returned in c.ret
BaseAPI_request(c, action, json, auth_token) ==
    Bind(before_request(c, json), LAMBDA c1 :
         UNION {process_response(
                    Logged(c1, [Entry("send", action, auth_token, r, NoCert)
                                   EXCEPT !.json = c1.req]), r)
                : r \in ResponsesFor(c1, action)})

(* --------------------------- AuthenticationFlow ------------------------ *)

\* the acknowledgement is tagged with the outcome but not with the gstin
request_otp_NoGstin(c) ==
    Bind(BaseAPI_request(c, "OTPREQUEST",
                         Json("OTPREQUEST", c.self.app_key, c.self.username, "none", NoToken),
                         NoToken),
         LAMBDA c1 :
            IF c1.ret.status_cd # 1 THEN {[c1 EXCEPT !.ret = None_]}
            ELSE LET response == [c1.ret EXCEPT !.error_type = "otp_requested"]
                 IN {Raise([c1 EXCEPT !.ret = response], "OTPRequestedError", "none", response)})

\* TaxpayerAuthenticate.request_otp
request_otp(c) ==
    Bind(BaseAPI_request(c, "OTPREQUEST",
                         Json("OTPREQUEST", c.self.app_key, c.self.username, "none", NoToken),
                         NoToken),
         LAMBDA c1 :
            IF c1.ret.status_cd # 1 THEN {[c1 EXCEPT !.ret = None_]}
            ELSE LET response == [c1.ret EXCEPT !.error_type = "otp_requested",
                                                !.gstin = c1.self.gstin]
                 IN {Raise([c1 EXCEPT !.ret = response], "OTPRequestedError", "none", response)})

\* the token of every credential is cleared, not only the object's own
reset_auth_token_AllRows(c) ==
    [c EXCEPT !.db = [g \in DOMAIN c.db |-> [c.db[g] EXCEPT !.auth_token = NoToken]],
              !.log = Append(@, Entry("db", "reset", c.self.gstin, None_, NoCert))]

\* TaxpayerAuthenticate.reset_auth_token
reset_auth_token(c) ==
    [c EXCEPT !.db[c.self.gstin].auth_token = NoToken,
              !.log = Append(@, Entry("db", "reset", c.self.gstin, None_, NoCert))]

\* no job branch: the token is reset and an OTP requested, job or not
autheticate_with_otp_NoJobBranch(c, otp) ==
    IF otp = "none"
    THEN request_otp([c EXCEPT !.db[c.self.gstin].auth_token = NoToken,
                               !.self.auth_token = NoToken,
                               !.log = Append(@, Entry("db", "reset", c.self.gstin, None_, NoCert))])
    ELSE Bind(BaseAPI_request(c, "AUTHTOKEN",
                              Json("AUTHTOKEN", c.self.app_key, c.self.username, otp, NoToken),
                         NoToken),
              LAMBDA c1 : {[c1 EXCEPT !.marker[c1.self.gstin] = TRUE]})

\* the persisted token is cleared, the object keeps its own
autheticate_with_otp_KeepsMemory(c, otp) ==
    IF otp = "none"
    THEN IF c.self.job
         THEN {Raise([c EXCEPT !.hooks = @ \cup {c.inst}], "InvalidAuthTokenError", "none", None_)}
         ELSE request_otp([c EXCEPT !.db[c.self.gstin].auth_token = NoToken,
                                    !.log = Append(@, Entry("db", "reset", c.self.gstin, None_, NoCert))])
    ELSE Bind(BaseAPI_request(c, "AUTHTOKEN",
                              Json("AUTHTOKEN", c.self.app_key, c.self.username, otp, NoToken),
                         NoToken),
              LAMBDA c1 : {[c1 EXCEPT !.marker[c1.self.gstin] = TRUE]})

\* TaxpayerAuthenticate.autheticate_with_otp
autheticate_with_otp(c, otp) ==
    IF otp = "none"
    THEN IF c.self.job
         THEN {Raise([c EXCEPT !.hooks = @ \cup {c.inst}], "InvalidAuthTokenError", "none", None_)}
         ELSE request_otp([c EXCEPT !.db[c.self.gstin].auth_token = NoToken,
                                    !.self.auth_token = NoToken,
                                    !.log = Append(@, Entry("db", "reset", c.self.gstin, None_, NoCert))])
    ELSE Bind(BaseAPI_request(c, "AUTHTOKEN",
                              Json("AUTHTOKEN", c.self.app_key, c.self.username, otp, NoToken),
                         NoToken),
              LAMBDA c1 : {[c1 EXCEPT !.marker[c1.self.gstin] = TRUE]})

\* the stored token is exchanged whether it is still live or not
refresh_auth_token_Always(c) ==
    IF c.self.auth_token = NoToken THEN {[c EXCEPT !.ret = None_]}
    ELSE BaseAPI_request(c, "REFRESHTOKEN",
                         Json("REFRESHTOKEN", c.self.app_key, c.self.username, "none",
                              c.self.auth_token),
                         NoToken)

\* TaxpayerAuthenticate.refresh_auth_token
refresh_auth_token(c) ==
    LET auth_token == get_auth_token(c.self, c.now)
    IN IF auth_token = NoToken THEN {[c EXCEPT !.ret = None_]}
       ELSE BaseAPI_request(c, "REFRESHTOKEN",
                            Json("REFRESHTOKEN", c.self.app_key, c.self.username, "none",
                                 auth_token),
                            NoToken)

\* every exception of the wrapped operation becomes a return value
otp_handler_CatchAll(c) ==
    IF c.exc # "none"
    THEN [c EXCEPT !.exc = "none", !.ret = c.thrown.body]
    ELSE c

\* otp_handler: what the caller of a wrapped operation receives
otp_handler(c) ==
    IF c.exc \in {"OTPRequestedError", "InvalidOTPError"}
    THEN [c EXCEPT !.exc = "none", !.ret = c.thrown.body]
    ELSE c

(* --------------------------- SecureRequestPipeline --------------------- *)

\* the arguments of get/post/put: action names the business request
NoArgs ==
    [action |-> "BUSINESS", otp |-> "none", return_type |-> "none",
     return_period |-> "none"]

\* the sub-flow runs only when there is no live token, OTP or not
_request_authenticate_OnlyWithoutToken(c, args) ==
    LET auth_token == get_auth_token(c.self, c.now)
        c0 == [c EXCEPT !.tok = auth_token, !.flag = FALSE]
    IN IF auth_token = NoToken
       THEN Bind(autheticate_with_otp(c0, args.otp), LAMBDA c1 :
                 IF c1.ret.nil THEN {Raise(c1, "AttributeError", "error_type", None_)}
                 ELSE {[c1 EXCEPT !.flag =
                            c1.ret.error_type \in {"otp_requested", "invalid_otp"}]})
       ELSE {c0}

\* TaxpayerBaseAPI._request up to the headers: the token read and the
\* authentication sub-flow; c.tok is the local auth_token, c.flag says
\* whether the sub-flow's response ended the call
_request_authenticate(c, args) ==
    LET auth_token == get_auth_token(c.self, c.now)
        c0 == [c EXCEPT !.tok = auth_token, !.flag = FALSE]
    IN IF auth_token = NoToken \/ args.otp # "none"
       THEN Bind(autheticate_with_otp(c0, args.otp), LAMBDA c1 :
                 IF c1.ret.nil THEN {Raise(c1, "AttributeError", "error_type", None_)}
                 ELSE {[c1 EXCEPT !.flag =
                            c1.ret.error_type \in {"otp_requested", "invalid_otp"}]})
       ELSE {c0}

\* the business response is returned as it is, authorization failure or not
_request_send_NoReauth(c, args) ==
    BaseAPI_request(c, args.action, NoJson, c.tok)

\* after the re-authentication the business request is sent once more
_request_send_Resend(c, args) ==
    Bind(BaseAPI_request(c, args.action, NoJson, c.tok), LAMBDA c1 :
         IF c1.ret.error_type = "authorization_failed"
         THEN Bind(autheticate_with_otp(c1, "none"), LAMBDA c2 :
                   BaseAPI_request(c2, args.action, NoJson, c2.tok))
         ELSE {c1})

\* TaxpayerBaseAPI._request from the headers on: the business request and
\* the re-authentication after an authorization failure
_request_send(c, args) ==
    Bind(BaseAPI_request(c, args.action, NoJson, c.tok), LAMBDA c1 :
         IF c1.ret.error_type = "authorization_failed"
         THEN autheticate_with_otp(c1, "none")
         ELSE {c1})

\* the OTP outcomes of the sub-flow are swallowed and the call goes on
_request_GoesOn(c, args) ==
    UNION {IF c1.exc \in {"none", "OTPRequestedError", "InvalidOTPError"}
           THEN _request_send([c1 EXCEPT !.exc = "none"], args) ELSE {c1}
           : c1 \in _request_authenticate(c, args)}

\* TaxpayerBaseAPI._request (get, post and put all come here)
_request(c, args) ==
    Bind(_request_authenticate(c, args), LAMBDA c1 :
         IF c1.flag THEN {c1} ELSE _request_send(c1, args))

\* TaxpayerBaseAPI.get_filing_preference
get_filing_preference(c) == _request(c, [NoArgs EXCEPT !.action = "GETPREF"])

\* the dummy request is made whether the marker is there or not
validate_auth_token_NoMarkerCheck(c) ==
    Bind(get_filing_preference(c), LAMBDA c1 :
         {[c1 EXCEPT !.marker[c1.self.gstin] = TRUE, !.ret = None_]})

\* TaxpayerBaseAPI.validate_auth_token
validate_auth_token(c) ==
    IF c.marker[c.self.gstin] THEN {[c EXCEPT !.ret = None_]}
    ELSE Bind(get_filing_preference(c), LAMBDA c1 :
              {[c1 EXCEPT !.marker[c1.self.gstin] = TRUE, !.ret = None_]})

(* --------------------------- FilesAPI ---------------------------------- *)

\* url_details of a download: ek, the base64 text of the key the files are
\* encrypted with, and urls, the rows (ul, hash) of the batch.  The batch
\* has MaxUrls files at most; file k is at URL k
FileKey == "k1"

\* a file as served: its bytes (an id of the content) and the encrypted
\* text the tar.gz holds
File(k) == [bytes |-> k, enc |-> aes_encrypt_data(b64encode("j" \o ToString(k)), FileKey)]

\* the file of URL k with bytes altered on the way
Corrupted(k) == [File(k) EXCEPT !.bytes = 0 - k]

hash_sha256(file) == <<"sha256", file.bytes>>

tar_gz_bytes_to_data(file) == file.enc

\* json.loads of a file's text: the rows it holds
json_loads(text) == {k \in 1..(MaxUrls + 1) : text = "j" \o ToString(k)}

\* merge_dicts(d1, d2): the rows of d2 are added to d1
merge_dicts(d1, d2) == d1 \cup d2

UrlRow(k) == [ul |-> k, hash |-> hash_sha256(File(k))]

UrlDetails == {[ek |-> b64encode(FileKey), urls |-> [k \in 1..n |-> UrlRow(k)]] : n \in 0..MaxUrls}

\* what the files endpoint can serve for a URL
Served(ul) == {File(ul), Corrupted(ul)}

\* a FilesAPI object and the call it is in: encryption_key, hash and ul are
\* its attributes, response the local of get_all, log what it fetched
\* (ev "get": URL and file served) and decrypted (ev "decrypt")
NoFiles ==
    [ran |-> FALSE, encryption_key |-> "", hash |-> <<>>, ul |-> 0, response |-> {},
     log |-> <<>>, exc |-> "none", thrown |-> "none", returned |-> FALSE, ret |-> {}]

FilesAPI == [NoFiles EXCEPT !.ran = TRUE]

\* FilesAPI.decrypt_data; the text is left in f.ret
FilesAPI_decrypt_data(f, encrypted_json) ==
    LET f1 == [f EXCEPT !.log = Append(@, [ev |-> "decrypt", ul |-> f.ul, file |-> encrypted_json])]
    IN IF aes_decrypt_fails(encrypted_json, f.encryption_key)
       THEN [f1 EXCEPT !.exc = "ValueError", !.thrown = "aes_decrypt_data"]
       ELSE [f1 EXCEPT !.ret = b64decode(aes_decrypt_data(encrypted_json, f.encryption_key))]

\* the file is unpacked and decrypted whatever its hash
FilesAPI_process_response_NoHashCheck(f, response) ==
    LET f1 == FilesAPI_decrypt_data(f, tar_gz_bytes_to_data(response))
    IN IF f1.exc # "none" THEN f1
       ELSE IF json_loads(f1.ret) = {}
       THEN [f1 EXCEPT !.exc = "ValueError", !.thrown = "json.loads"]
       ELSE [f1 EXCEPT !.ret = json_loads(f1.ret)]

\* FilesAPI.process_response, on the bytes served; the data is left in f.ret
FilesAPI_process_response(f, response) ==
    LET computed_hash == hash_sha256(response)
    IN IF computed_hash # f.hash
       THEN [f EXCEPT !.exc = "ValidationError",
                      !.thrown = "Hash of file doesn't match for " \o ToString(f.ul)]
       ELSE LET f1 == FilesAPI_decrypt_data(f, tar_gz_bytes_to_data(response))
            IN IF f1.exc # "none" THEN f1
               ELSE IF json_loads(f1.ret) = {}
               THEN [f1 EXCEPT !.exc = "ValueError", !.thrown = "json.loads"]
               ELSE [f1 EXCEPT !.ret = json_loads(f1.ret)]

\* BaseAPI.get of a file: whatever is served goes to process_response
FilesAPI_get(f, endpoint) ==
    {FilesAPI_process_response(
        [f EXCEPT !.log = Append(@, [ev |-> "get", ul |-> endpoint, file |-> file])], file)
     : file \in Served(endpoint)}

\* the loop of FilesAPI.get_all from row n on
RECURSIVE FilesAPI_get_all_rows(_, _, _)
FilesAPI_get_all_rows(f, urls, n) ==
    IF f.exc # "none" THEN {f}
    ELSE IF n > Len(urls) THEN {[f EXCEPT !.returned = TRUE, !.ret = f.response]}
    ELSE UNION {IF f1.exc # "none" THEN {f1}
                ELSE FilesAPI_get_all_rows(
                        [f1 EXCEPT !.response = IF f1.response = {} THEN f1.ret
                                                ELSE merge_dicts(f1.response, f1.ret)],
                        urls, n + 1)
                : f1 \in FilesAPI_get([f EXCEPT !.hash = urls[n].hash, !.ul = urls[n].ul],
                                      urls[n].ul)}

\* FilesAPI.get_all
FilesAPI_get_all(f, url_details) ==
    FilesAPI_get_all_rows([f EXCEPT !.response = {},
                                    !.encryption_key = b64decode(url_details.ek)],
                          url_details.urls, 1)

\* TaxpayerBaseAPI.get_files: the call of the pipeline (call) and the
\* FilesAPI object it handed the response to (files).  The url_details a
\* decrypted response lists are drawn here; a response without a result
\* has no ek
get_files(c, otp) ==
    LET downloads == UNION {FilesAPI_get_all(FilesAPI, url_details)
                            : url_details \in UrlDetails}
    IN UNION {IF c1.exc # "none" THEN {[call |-> c1, files |-> NoFiles]}
              ELSE IF c1.ret.nil
              THEN {[call |-> Raise(c1, "AttributeError", "error_type", None_),
                     files |-> NoFiles]}
              ELSE IF c1.ret.error_type = "queued" THEN {[call |-> c1, files |-> NoFiles]}
              ELSE IF c1.ret.result = "none"
              THEN {[call |-> Raise(c1, "TypeError", "b64decode", None_), files |-> FilesAPI]}
              ELSE {[call |-> IF f.exc # "none" THEN Raise(c1, f.exc, f.thrown, None_)
                              ELSE c1,
                     files |-> f]
                    : f \in downloads}
              : c1 \in _request(c, [NoArgs EXCEPT !.action = "GETFILES", !.otp = otp])}

(* --------------------------- actions ----------------------------------- *)

\* the state an action leaves: that of the context the handler ended in
Done(i, c) ==
    /\ db' = c.db
    /\ cert' = c.cert
    /\ marker' = c.marker
    /\ after_job' = c.hooks
    /\ api' = [api EXCEPT ![i] = c.self]
    /\ UNCHANGED now

\* the object has been set up with a gstin
Ready(i) == api[i].gstin # "none"

\* an API object is constructed, inside a job or not
Setup(i) ==
    /\ ~Ready(i)
    /\ \E g \in Gstins, job \in BOOLEAN :
         \E c \in setup(Ctx(i), g, job) : Done(i, c)

\* the object goes away with the request that made it
Drop(i) ==
    /\ Ready(i)
    /\ i \notin after_job
    /\ api' = [api EXCEPT ![i] = NoSelf]
    /\ UNCHANGED <<db, cert, marker, now, after_job>>

GetPublicCertificate(i) ==
    /\ Ready(i)
    /\ \E c \in get_public_certificate(Ctx(i)) : Done(i, c)

RequestOtp(i) ==
    /\ Ready(i)
    /\ \E c \in request_otp(Ctx(i)) : Done(i, c)

AuthenticateWithOtp(i) ==
    /\ Ready(i)
    /\ \E otp \in Otps \cup {"none"} :
         \E c \in autheticate_with_otp(Ctx(i), otp) : Done(i, c)

RefreshAuthToken(i) ==
    /\ Ready(i)
    /\ \E c \in refresh_auth_token(Ctx(i)) : Done(i, c)

\* get / post / put
Request(i) ==
    /\ Ready(i)
    /\ \E otp \in Otps \cup {"none"} :
         \E c \in _request(Ctx(i), [NoArgs EXCEPT !.otp = otp]) : Done(i, c)

ValidateAuthToken(i) ==
    /\ Ready(i)
    /\ \E c \in validate_auth_token(Ctx(i)) : Done(i, c)

\* a download: the state is left by the call of the pipeline, whatever
\* the FilesAPI object then fetched
GetFiles(i) ==
    /\ Ready(i)
    /\ \E otp \in Otps \cup {"none"} :
         \E c \in {[p.call EXCEPT !.log = <<>>, !.exc = "none", !.thrown = NoThrown,
                                 !.ret = None_, !.tok = NoToken, !.req = NoJson,
                                 !.flag = FALSE]
                   : p \in get_files(Ctx(i), otp)} : Done(i, c)

\* the job ends: its after_job hook runs and its object goes away
AfterJob(i) ==
    /\ i \in after_job
    /\ LET c == reset_auth_token(Ctx(i))
       IN /\ db' = c.db
          /\ after_job' = after_job \ {i}
          /\ api' = [api EXCEPT ![i] = NoSelf]
    /\ UNCHANGED <<cert, marker, now>>

\* the cache entry "authenticated_gstin:<gstin>" expires
MarkerExpires(g) ==
    /\ marker[g]
    /\ marker' = [marker EXCEPT ![g] = FALSE]
    /\ UNCHANGED <<db, cert, now, api, after_job>>

Tick ==
    /\ now < MaxTime
    /\ now' = now + 1
    /\ UNCHANGED <<db, cert, marker, api, after_job>>

Init ==
    /\ db = [g \in Gstins |-> NoRow]
    /\ cert = NoCert
    /\ marker = [g \in Gstins |-> FALSE]
    /\ now = 1
    /\ api = [i \in Insts |-> NoSelf]
    /\ after_job = {}

Next ==
    \/ Tick
    \/ \E i \in Insts : Setup(i)
    \/ \E i \in Insts : Drop(i)
    \/ \E i \in Insts : GetPublicCertificate(i)
    \/ \E i \in Insts : RequestOtp(i)
    \/ \E i \in Insts : AuthenticateWithOtp(i)
    \/ \E i \in Insts : RefreshAuthToken(i)
    \/ \E i \in Insts : Request(i)
    \/ \E i \in Insts : ValidateAuthToken(i)
    \/ \E i \in Insts : AfterJob(i)
    \/ \E g \in Gstins : MarkerExpires(g)

Spec == Init /\ [][Next]_vars

(* ------------------ pipelines for different credentials ---------------- *)

\* two API objects, each set up with a gstin of its own, whose calls
\* interleave
Pipelines == {1, 2}

KeyOf(i) == IF i = 1 THEN "g1" ELSE "g2"

Keys == {KeyOf(i) : i \in Pipelines}

SetupKey(i) ==
    /\ ~Ready(i)
    /\ \E job \in BOOLEAN :
         \E c \in setup(Ctx(i), KeyOf(i), job) : Done(i, c)

InitKeys ==
    /\ db = [g \in Keys |-> NoRow]
    /\ cert = NoCert
    /\ marker = [g \in Keys |-> FALSE]
    /\ now = 1
    /\ api = [i \in Pipelines |-> NoSelf]
    /\ after_job = {}

NextKeys ==
    \/ \E i \in Pipelines : SetupKey(i)
    \/ \E i \in Pipelines : Drop(i)
    \/ \E i \in Pipelines : AuthenticateWithOtp(i)
    \/ \E i \in Pipelines : AfterJob(i)

SpecKeys == InitKeys /\ [][NextKeys]_vars

(* ------------------ pipelines for the same credential ------------------ *)

\* two API objects set up with the same gstin (a background job and a
\* request of the user, or two of either), whose calls interleave
SetupShared(i) ==
    /\ ~Ready(i)
    /\ \E job \in BOOLEAN :
         \E c \in setup(Ctx(i), "g1", job) : Done(i, c)

InitShared ==
    /\ db = [g \in Gstins |-> NoRow]
    /\ cert = NoCert
    /\ marker = [g \in Gstins |-> FALSE]
    /\ now = 1
    /\ api = [i \in Pipelines |-> NoSelf]
    /\ after_job = {}

NextShared ==
    \/ \E i \in Pipelines : SetupShared(i)
    \/ \E i \in Pipelines : Drop(i)
    \/ \E i \in Pipelines : AuthenticateWithOtp(i)
    \/ \E i \in Pipelines : AfterJob(i)

SpecShared == InitShared /\ [][NextShared]_vars

(* --------------------------- downloads --------------------------------- *)

\* an API object that is set up, authenticates with or without an OTP and
\* downloads files, inside a job or not
NextFiles ==
    \/ \E i \in Insts : Setup(i)
    \/ \E i \in Insts : Drop(i)
    \/ \E i \in Insts : AuthenticateWithOtp(i)
    \/ \E i \in Insts : GetFiles(i)
    \/ \E i \in Insts : AfterJob(i)

SpecFiles == Init /\ [][NextFiles]_vars

(* --------------------------- reading a call ---------------------------- *)

\* the calls get/post/put are made with: an OTP supplied or not
OtpArgs == {[NoArgs EXCEPT !.otp = o] : o \in Otps \cup {"none"}}

NSend(c, what) == Count(c.log, LAMBDA e : e.ev = "send" /\ e.what = what)

NFetch(c, by) == Count(c.log, LAMBDA e : e.ev = "fetch" /\ e.what = by)

NReset(c) == Count(c.log, LAMBDA e : e.ev = "db" /\ e.what = "reset")

SendsOf(c) == SelectSeq(c.log, LAMBDA e : e.ev = "send")

\* the object holds a token, an expiry, and the expiry is yet to come
Live(i) ==
    /\ api[i].auth_token # NoToken
    /\ api[i].session_expiry # NoExpiry
    /\ api[i].session_expiry > now

\* what the gateway's answer to a sent request means
SaysOtpRequested(e) ==
    \/ e.what = "OTPREQUEST" /\ e.resp.status_cd = 1
    \/ e.resp.status_cd = 0 /\ e.resp.error_cd \in {"RETOTPREQUEST", "EVCREQUEST"}

SaysInvalidOtp(e) == e.resp.status_cd = 0 /\ e.resp.error_cd = "AUTH4033"

SaysAuthorizationFailed(e) ==
    e.resp.status_cd = 0 /\ e.resp.error_cd \in {"AUTH158", "AUTH4038", "RT-R1R3BAV-1007"}

SaysInvalidPublicKey(e) == e.resp.status_cd = 0 /\ e.resp.error_cd = "TEC4002"

(* --------------------------- claims ------------------------------------ *)

\* C1: get_auth_token() returns the stored token exactly when the token is
\* non-empty, session_expiry is present and session_expiry is strictly
\* later than the current time; otherwise (token missing, expiry missing,
\* expiry past or equal to the current time) it returns absent.
C1_GetAuthTokenLiveOnly ==
    \A i \in Insts : Ready(i) =>
        /\ Live(i) => get_auth_token(api[i], now) = api[i].auth_token
        /\ ~Live(i) => get_auth_token(api[i], now) = NoToken

\* an object holding a token whose expiry is exactly the current time
C1_Witness ==
    \E i \in Insts : Ready(i) /\ api[i].auth_token # NoToken /\ api[i].session_expiry = now

\* C2: a get/post/put call that starts without a live token, or with an
\* OTP: when the gateway's answer to the authentication request means
\* otp_requested or invalid_otp, the caller receives that response, tagged
\* with that outcome, and no business request is sent in the call.
C2_AuthOutcomeEndsCall ==
    \A i \in Insts, args \in OtpArgs :
        (Ready(i) /\ (~Live(i) \/ args.otp # "none")) =>
            \A c \in _request(Ctx(i), args) :
                LET sends == SendsOf(c)
                    h == otp_handler(c)
                IN (Len(sends) > 0 /\ sends[1].what \in {"OTPREQUEST", "AUTHTOKEN"}
                        /\ (SaysOtpRequested(sends[1]) \/ SaysInvalidOtp(sends[1]))) =>
                    /\ h.exc = "none"
                    /\ ~h.ret.nil
                    /\ h.ret.error_type = IF SaysOtpRequested(sends[1])
                                          THEN "otp_requested" ELSE "invalid_otp"
                    /\ h.ret.gstin = api[i].gstin
                    /\ NSend(c, "BUSINESS") = 0

\* a call with an OTP whose AUTHTOKEN submission is answered invalid_otp,
\* and a call without a token whose OTP request is acknowledged
C2_Witness ==
    \E i \in Insts :
        /\ Ready(i)
        /\ \E c \in _request(Ctx(i), [NoArgs EXCEPT !.otp = "otp1"]) :
              SendsOf(c)[1].what = "AUTHTOKEN" /\ SaysInvalidOtp(SendsOf(c)[1])
                /\ otp_handler(c).ret.error_type = "invalid_otp"
        /\ ~Live(i)
        /\ \E c \in _request(Ctx(i), NoArgs) :
              NSend(c, "OTPREQUEST") = 1 /\ otp_handler(c).ret.error_type = "otp_requested"

\* C3: outside a job, a call made with a live token whose business
\* response means authorization_failed re-authenticates without OTP
\* exactly once (one token reset, at most one OTP request and exactly one
\* when the request could be encrypted, no second business request), and
\* what the call returns is the re-authentication's outcome, never the
\* business response: an acknowledged OTP request gives otp_requested
\* tagged with the gstin.
C3_OneReauthentication ==
    \A i \in Insts, args \in OtpArgs :
        (Ready(i) /\ Live(i) /\ ~api[i].job) =>
            \A c \in _request(Ctx(i), args) :
                LET sends == SendsOf(c)
                    h == otp_handler(c)
                    biz == CHOOSE n \in 1..Len(sends) : sends[n].what = "BUSINESS"
                IN (NSend(c, "BUSINESS") > 0 /\ SaysAuthorizationFailed(sends[biz])) =>
                    /\ NReset(c) = 1
                    /\ NSend(c, "BUSINESS") = 1
                    /\ NSend(c, "OTPREQUEST") <= 1
                    /\ NFetch(c, "get_public_certificate") = 0 => NSend(c, "OTPREQUEST") = 1
                    /\ c.log[Len(c.log)].what # "BUSINESS"
                    /\ h.exc = "none" => h.ret.error_type # "authorization_failed"
                    /\ (NSend(c, "OTPREQUEST") = 1 /\ sends[Len(sends)].resp = Ack) =>
                          /\ h.exc = "none"
                          /\ h.ret.error_type = "otp_requested"
                          /\ h.ret.gstin = api[i].gstin

\* a call with a live token, answered authorization_failed, whose one OTP
\* request is acknowledged
C3_Witness ==
    \E i \in Insts :
        /\ Ready(i) /\ Live(i) /\ ~api[i].job
        /\ \E c \in _request(Ctx(i), NoArgs) :
              /\ NSend(c, "BUSINESS") = 1
              /\ SaysAuthorizationFailed(SendsOf(c)[1])
              /\ NSend(c, "OTPREQUEST") = 1
              /\ otp_handler(c).ret.error_type = "otp_requested"

\* C4: inside a job, a call without OTP that needs authentication (no
\* live token, or a business response meaning authorization_failed)
\* raises InvalidAuthTokenError with reset_auth_token registered to run
\* after the job, sends no OTP request and leaves the persisted
\* auth_token as it was; the after-job hook, when it runs, leaves it null.
C4_InJob ==
    \A i \in Insts :
        /\ (Ready(i) /\ api[i].job) =>
              \A c \in _request(Ctx(i), NoArgs) :
                  LET sends == SendsOf(c)
                  IN (~Live(i) \/ (Len(sends) > 0 /\ SaysAuthorizationFailed(sends[Len(sends)]))) =>
                        /\ c.exc = "InvalidAuthTokenError"
                        /\ otp_handler(c).exc = "InvalidAuthTokenError"
                        /\ i \in c.hooks
                        /\ NSend(c, "OTPREQUEST") = 0
                        /\ NReset(c) = 0
                        /\ c.db[api[i].gstin].auth_token = db[api[i].gstin].auth_token
                        /\ ~Live(i) => c.log = <<>>
        /\ i \in after_job =>
              reset_auth_token(Ctx(i)).db[api[i].gstin].auth_token = NoToken

C4_HookLeavesNull ==
    [][\A i \in Insts : (i \in after_job /\ i \notin after_job') =>
            db'[api[i].gstin].auth_token = NoToken]_vars

\* C4 (both parts): the call in the job, and the step of the hook
C4_DeferredReset == []C4_InJob /\ C4_HookLeavesNull

\* the hook is registered while a token is still persisted
C4_Witness ==
    \E i \in Insts : i \in after_job /\ api[i].job /\ db[api[i].gstin].auth_token # NoToken

\* C5: after an OTP submission that the gateway answers with auth_token,
\* expiry and sek, the credential row holds that auth_token, the session
\* key decrypted from sek under the app key (as base64 text) and
\* session_expiry = now + expiry, written before the call returns; the
\* object's token, key and expiry are the persisted ones.
C5_RotationPersisted ==
    \A i \in Insts, otp \in Otps :
        Ready(i) =>
            \A c \in autheticate_with_otp(Ctx(i), otp) :
                LET r == SendsOf(c)[Len(SendsOf(c))].resp
                    g == api[i].gstin
                IN (c.exc = "none" /\ NSend(c, "AUTHTOKEN") = 1 /\ r.status_cd = 1
                        /\ r.auth_token # NoToken /\ r.expiry # 0 /\ r.sek # NoCt) =>
                    /\ c.db[g].auth_token = r.auth_token
                    /\ c.db[g].session_expiry = now + r.expiry
                    /\ r.sek.key = api[i].app_key =>
                          /\ c.self.session_key = r.sek.pt
                          /\ r.sek.pt = "k1" => c.db[g].session_key = "azE="
                    /\ r.sek.key # api[i].app_key => c.self.session_key = "garbage"
                    /\ c.self.auth_token = c.db[g].auth_token
                    /\ c.self.session_expiry = c.db[g].session_expiry
                    /\ c.self.session_key = b64decode(c.db[g].session_key)
                    /\ c.db[g].session_key = b64encode(c.self.session_key)
                    /\ c.ret = r

\* a submission answered with a token, an expiry and the session key k1
C5_Witness ==
    \E i \in Insts : Ready(i) /\
        \E c \in autheticate_with_otp(Ctx(i), "otp1") :
            /\ c.exc = "none"
            /\ c.ret.auth_token = "t2" /\ c.ret.expiry = 2
            /\ c.db[api[i].gstin] = [app_key |-> api[i].app_key, auth_token |-> "t2",
                                     session_key |-> "azE=", session_expiry |-> now + 2]
            /\ db[api[i].gstin].auth_token = "t1"

\* C6: for a credential with no token, request_otp() whose OTP request
\* the gateway acknowledges gives the caller an otp_requested response
\* carrying the gstin the API was set up with, and the stored auth_token
\* is still null afterwards.
C6_RequestOtp ==
    \A i \in Insts :
        (Ready(i) /\ db[api[i].gstin].auth_token = NoToken) =>
            \A c \in request_otp(Ctx(i)) :
                (NSend(c, "OTPREQUEST") = 1 /\ SendsOf(c)[1].resp = Ack) =>
                    /\ c.exc = "OTPRequestedError"
                    /\ otp_handler(c).exc = "none"
                    /\ otp_handler(c).ret.error_type = "otp_requested"
                    /\ otp_handler(c).ret.gstin = api[i].gstin
                    /\ otp_handler(c).ret.status_cd = 1
                    /\ c.db[api[i].gstin].auth_token = NoToken
                    /\ c.self.auth_token = api[i].auth_token

\* an acknowledged OTP request for a credential without a token
C6_Witness ==
    \E i \in Insts : Ready(i) /\ db[api[i].gstin].auth_token = NoToken /\
        \E c \in request_otp(Ctx(i)) :
            NSend(c, "OTPREQUEST") = 1 /\ SendsOf(c)[1].resp = Ack
                /\ otp_handler(c).ret.gstin = "g1"

\* C7: a response with status_cd 0 whose error code is not in the
\* ignored-error table makes the call fail with the gateway's message, or
\* with the response body when it has no message; the caller gets no
\* return value, and nothing is sent or reset after that response.
C7_UnknownErrorFatal ==
    \A i \in Insts, args \in OtpArgs :
        Ready(i) =>
            \A c \in _request(Ctx(i), args) :
                \A n \in 1..Len(c.log) :
                    LET e == c.log[n]
                    IN (e.ev = "send" /\ e.resp.status_cd = 0
                            /\ e.resp.error_cd \notin DOMAIN IGNORED_ERROR_CODES) =>
                        /\ c.exc = "ValidationError"
                        /\ otp_handler(c).exc = "ValidationError"
                        /\ c.thrown.text = IF e.resp.message # "none" THEN e.resp.message
                                           ELSE "as_json(response)"
                        /\ c.thrown.body = e.resp
                        /\ n = Len(c.log)

\* an unknown code with a message after a successful OTP submission, and
\* an error without message on a business request
C7_Witness ==
    \E i \in Insts : Ready(i) /\ Live(i) /\
        /\ \E c \in _request(Ctx(i), [NoArgs EXCEPT !.otp = "otp1"]) :
              /\ Len(c.log) = 3
              /\ c.log[3].resp.error_cd = "XYZ999" /\ c.thrown.text = "m1"
        /\ \E c \in _request(Ctx(i), NoArgs) :
              c.log[1].resp.error_cd = "none" /\ c.thrown.text = "as_json(response)"

\* the response carries rek, data and an hmac that is not the HMAC of its
\* data under its rek
HmacWrong(r) ==
    /\ r.data # NoCt /\ r.rek # NoCt /\ r.hmac # NoHmac
    /\ r.hmac # [d |-> r.data.pt, k |-> r.rek.pt]

\* C8 as stated: every response with data and a wrong hmac makes
\* decrypt_response fail with an error.
C8_Original ==
    \A i \in Insts :
        Ready(i) =>
            \A r \in BusinessResponses(Ctx(i)) :
                HmacWrong(r) => decrypt_response([Ctx(i) EXCEPT !.ret = r]).exc # "none"

\* C8 (amended): a response that carries no auth_token, and data with an
\* hmac that is not the HMAC of the decrypted data under the decrypted
\* rek, makes the call fail (with "HMAC mismatch" when rek and data
\* decrypt), nothing is sent after it and no result is set; a response
\* that carries auth_token is taken as a rotation, its hmac is not
\* checked, and no result is set for it either.
C8_HmacMismatchFatal ==
    \A i \in Insts, args \in OtpArgs :
        Ready(i) =>
          /\ \A r \in BusinessResponses(Ctx(i)) :
                LET c == decrypt_response([Ctx(i) EXCEPT !.ret = r])
                IN HmacWrong(r) =>
                    /\ c.ret.result = "none"
                    /\ r.auth_token = NoToken => c.exc # "none"
                    /\ (r.auth_token = NoToken /\ r.rek.key = api[i].session_key
                            /\ api[i].session_key # "") =>
                          c.exc = "ValidationError" /\ c.thrown.text = "HMAC mismatch"
          /\ \A c \in _request(Ctx(i), args) :
                \A n \in 1..Len(c.log) :
                    LET r == c.log[n].resp
                    IN (c.log[n].ev = "send" /\ HmacWrong(r)) =>
                        /\ c.ret.result = "none"
                        /\ r.auth_token = NoToken =>
                              /\ c.exc # "none"
                              /\ otp_handler(c).exc = c.exc
                              /\ n = Len(c.log)
                              /\ (r.rek.key = c.self.session_key /\ c.self.session_key # ""
                                    /\ r.data.key = r.rek.pt) =>
                                    c.exc = "ValidationError" /\ c.thrown.text = "HMAC mismatch"

\* a business response with a wrong hmac fails the call with HMAC mismatch
C8_Witness ==
    \E i \in Insts : Ready(i) /\ Live(i) /\
        \E c \in _request(Ctx(i), NoArgs) :
            /\ Len(c.log) = 1 /\ HmacWrong(c.log[1].resp)
            /\ c.log[1].resp.auth_token = NoToken
            /\ c.exc = "ValidationError" /\ c.thrown.text = "HMAC mismatch"

\* C9: when the stored certificate's not_valid_after is in the past,
\* get_public_certificate() fetches from the certificate endpoint exactly
\* once.
C9_ExpiredOneFetch ==
    \A i \in Insts :
        (Ready(i) /\ cert # NoCert /\ cert.not_valid_after < now) =>
            \A c \in get_public_certificate(Ctx(i)) :
                /\ NFetch(c, "get_public_certificate") = 1
                /\ Len(c.log) = 1
                /\ c.exc = "none" => c.cert = c.log[1].cert

\* an expired stored certificate is replaced by the one fetched
C9_Witness ==
    \E i \in Insts : Ready(i) /\ cert # NoCert /\ cert.not_valid_after < now /\
        \E c \in get_public_certificate(Ctx(i)) : c.exc = "none" /\ c.cert # cert

\* C10: a response meaning invalid_public_key makes its classification
\* fetch the certificate exactly once: a certificate other than the
\* stored one replaces it (and the tagged response is returned); the same
\* certificate fails the call with the user-facing error, the stored
\* certificate stays, and nothing more is fetched or sent.
C10_InvalidPublicKey ==
    \A i \in Insts :
        Ready(i) =>
            /\ \A m \in {"none", "m1"} :
                 \A c \in handle_error_response([Ctx(i) EXCEPT !.ret = ErrorResp("TEC4002", m)]) :
                    /\ Len(c.log) = 1
                    /\ NFetch(c, "handle_error_response") = 1
                    /\ IF c.log[1].cert # cert
                       THEN c.exc = "none" /\ c.cert = c.log[1].cert
                            /\ c.ret.error_type = "invalid_public_key"
                       ELSE c.exc = "ValidationError" /\ c.cert = cert
                            /\ c.thrown.text = "Looks like Public Key of GSTN used for encryption is Invalid"
            /\ (Live(i) /\ ~api[i].job) =>
                 \A c \in _request(Ctx(i), NoArgs) :
                    SaysInvalidPublicKey(c.log[1]) =>
                        /\ Len(c.log) = 2
                        /\ c.log[2].ev = "fetch" /\ c.log[2].what = "handle_error_response"
                        /\ IF c.log[2].cert # cert
                           THEN c.exc = "none" /\ c.cert = c.log[2].cert
                                /\ c.ret.error_type = "invalid_public_key"
                           ELSE c.exc = "ValidationError" /\ c.cert = cert
                                /\ otp_handler(c).exc = "ValidationError"

\* with a certificate stored, a business response meaning
\* invalid_public_key is followed by a fetch of the same certificate (the
\* call fails) or of another (it is stored)
C10_Witness ==
    \E i \in Insts : Ready(i) /\ Live(i) /\ ~api[i].job /\ cert # NoCert /\
        /\ \E c \in _request(Ctx(i), NoArgs) :
              SaysInvalidPublicKey(c.log[1]) /\ c.exc = "ValidationError" /\ c.cert = cert
        /\ \E c \in _request(Ctx(i), NoArgs) :
              SaysInvalidPublicKey(c.log[1]) /\ c.exc = "none" /\ c.cert # cert

\* requests of the call to the authenticate endpoint, among the first n
\* entries of its log
NAuthSends(c, n) ==
    Cardinality({m \in 1..n : c.log[m].ev = "send"
                              /\ c.log[m].what \in {"OTPREQUEST", "AUTHTOKEN"}})

\* where in the log the business request is (0: it was not sent)
BusinessAt(c) ==
    IF NSend(c, "BUSINESS") = 0 THEN 0
    ELSE CHOOSE n \in 1..Len(c.log) : c.log[n].ev = "send" /\ c.log[n].what = "BUSINESS"

C12_NeverReturnsExpired ==
    \A i \in Insts :
        Ready(i) =>
            \A c \in get_public_certificate(Ctx(i)) :
                c.exc = "none" => ~(c.cert.not_valid_after < now)

\* C13: refresh_auth_token() sends one REFRESHTOKEN request, carrying the
\* token get_auth_token() returns, exactly when that token is live; with
\* no live token it returns nothing, sends nothing and changes nothing; in
\* neither case is an OTP requested or submitted, and the request carries
\* no otp.
C13_RefreshOnlyLive ==
    \A i \in Insts :
        Ready(i) =>
            \A c \in refresh_auth_token(Ctx(i)) :
                /\ NSend(c, "OTPREQUEST") = 0
                /\ NSend(c, "AUTHTOKEN") = 0
                /\ NSend(c, "BUSINESS") = 0
                /\ NReset(c) = 0
                /\ Live(i) <=> NSend(c, "REFRESHTOKEN") = 1
                /\ Live(i) =>
                      LET e == c.log[1]
                      IN /\ e.ev = "send" /\ e.what = "REFRESHTOKEN"
                         /\ e.json.action = "REFRESHTOKEN"
                         /\ e.json.auth_token = api[i].auth_token
                         /\ e.json.auth_token = get_auth_token(api[i], now)
                         /\ e.json.username = api[i].username
                         /\ e.json.otp_plain = "none" /\ e.json.otp = NoCt
                /\ ~Live(i) =>
                      /\ c.log = <<>> /\ c.exc = "none" /\ c.ret.nil
                      /\ c.db = db /\ c.self = api[i] /\ c.cert = cert
                      /\ NSend(c, "REFRESHTOKEN") = 0

\* a live token is sent and exchanged for another, which is persisted
C13_Witness ==
    \E i \in Insts : Ready(i) /\ Live(i) /\
        \E c \in refresh_auth_token(Ctx(i)) :
            /\ c.exc = "none" /\ c.self.auth_token # api[i].auth_token
            /\ c.log[1].json.auth_token = api[i].auth_token
            /\ c.db[api[i].gstin].auth_token = c.self.auth_token

\* the bodies the authenticate requests carry, for the object of a state
Payloads(self) ==
    {Json(action, self.app_key, self.username, otp, tok)
        : action \in {"OTPREQUEST", "AUTHTOKEN", "REFRESHTOKEN"},
          otp \in Otps \cup {"none"}, tok \in {NoToken, self.auth_token}}

\* the certificate stored when the n-th entry of the log was made: the one
\* last fetched before it, or the one stored when the call began
CertAt(c, n, stored) ==
    LET fetches == {m \in 1..(n - 1) : c.log[m].ev = "fetch"}
    IN IF fetches = {} THEN stored
       ELSE c.log[CHOOSE m \in fetches : \A k \in fetches : k <= m].cert

\* C14: of every outbound body carrying app_key, the app key is
\* AES-encrypted under the session key when the action is REFRESHTOKEN,
\* with no certificate read or fetched, and encrypted with the key of the
\* public certificate get_public_certificate() returns for every other
\* action; an otp in the body is AES-encrypted under the app key.  This
\* holds of encrypt_request on every body, and of the body every
\* authenticate request was sent with.
C14_AppKeyEncryption ==
    \A i \in Insts :
        Ready(i) =>
            /\ \A json \in Payloads(api[i]) :
                 \A c \in TaxpayerAuthenticate_encrypt_request(Ctx(i), json) :
                    /\ json.action = "REFRESHTOKEN" =>
                          /\ c.exc = "none" /\ c.log = <<>> /\ c.cert = cert
                          /\ c.req.app_key = aes_encrypt_data(api[i].app_key, api[i].session_key)
                          /\ \A crt \in Certs \cup {NoCert} :
                                TaxpayerAuthenticate_encrypt_request(
                                    [Ctx(i) EXCEPT !.cert = crt], json)
                                  = {[c EXCEPT !.cert = crt]}
                    /\ (json.action # "REFRESHTOKEN" /\ c.exc = "none") =>
                          /\ c.cert # NoCert
                          /\ c.req.app_key = encrypt_using_public_key(api[i].app_key, c.cert)
                          /\ c.req.app_key # aes_encrypt_data(api[i].app_key, api[i].session_key)
                    /\ (json.action # "REFRESHTOKEN" /\ c.exc # "none") =>
                          NFetch(c, "get_public_certificate") > 0
                    /\ (json.otp_plain # "none" /\ c.exc = "none") =>
                          c.req.otp = aes_encrypt_data(json.otp_plain, api[i].app_key)
                    /\ (json.otp_plain = "none" /\ c.exc = "none") => c.req.otp = NoCt
            /\ \A c \in refresh_auth_token(Ctx(i)) \cup request_otp(Ctx(i))
                            \cup autheticate_with_otp(Ctx(i), "otp1") :
                 \A n \in 1..Len(c.log) :
                    LET e == c.log[n]
                    IN (e.ev = "send" /\ ~e.json.nil) =>
                        /\ e.json.app_key.pt = api[i].app_key
                        /\ e.json.app_key.key = IF e.what = "REFRESHTOKEN"
                                                THEN api[i].session_key
                                                ELSE CertAt(c, n, cert).id
                        /\ e.what # "REFRESHTOKEN" => CertAt(c, n, cert) # NoCert
                        /\ e.what = "AUTHTOKEN" =>
                              e.json.otp = aes_encrypt_data("otp1", api[i].app_key)
                        /\ e.what # "AUTHTOKEN" => e.json.otp = NoCt

\* a refresh sent with a certificate stored, its app key under the session
\* key, and an OTP submission with the app key under that certificate
C14_Witness ==
    \E i \in Insts : Ready(i) /\ Live(i) /\ cert # NoCert /\ api[i].session_key = "k1" /\
        /\ \E c \in refresh_auth_token(Ctx(i)) :
              c.log[1].json.app_key = [pt |-> "a1", key |-> "k1", pad |-> FALSE]
        /\ \E c \in autheticate_with_otp(Ctx(i), "otp1") :
              /\ c.log[1].ev = "send"
              /\ c.log[1].json.app_key = [pt |-> "a1", key |-> cert.id, pad |-> FALSE]
              /\ c.log[1].json.otp = [pt |-> "otp1", key |-> "a1", pad |-> FALSE]

\* validate_auth_token() called with the marker of the object's gstin
\* present (m TRUE) or absent
Validated(i, m) ==
    validate_auth_token([Ctx(i) EXCEPT !.marker[api[i].gstin] = m])

\* C15 as stated: with the marker present nothing is sent and no
\* credential state changes; with it absent exactly one GETPREF request
\* is sent, whatever the token, and the marker is set only when the call
\* did not raise.
C15_Original ==
    \A i \in Insts :
        Ready(i) =>
            /\ \A c \in Validated(i, TRUE) :
                  c.log = <<>> /\ c.db = db /\ c.self = api[i]
            /\ \A c \in Validated(i, FALSE) :
                  /\ NSend(c, "GETPREF") = 1
                  /\ c.marker[api[i].gstin] => c.exc = "none"

\* C15 (amended): with the marker present the call returns having sent
\* nothing and changed nothing.  With the marker absent it makes the
\* get_filing_preference() call: one GETPREF request, sent first, when the
\* token is live; no GETPREF when it is not, but the authentication
\* without OTP (in a job InvalidAuthTokenError, else a token reset), and
\* the call raises; the marker is set exactly when the call does not
\* raise, and a GETPREF request was sent then.  With a live token and an
\* acknowledged GETPREF the call ends as with the marker present, the
\* marker set and the request sent being the only differences.
C15_MarkerSkipsValidation ==
    \A i \in Insts :
        Ready(i) =>
            /\ Validated(i, TRUE) = {[Ctx(i) EXCEPT !.marker[api[i].gstin] = TRUE]}
            /\ \A c \in Validated(i, FALSE) :
                  /\ NSend(c, "GETPREF") <= 1
                  /\ Live(i) => /\ NSend(c, "GETPREF") = 1
                                /\ c.log[1].ev = "send" /\ c.log[1].what = "GETPREF"
                  /\ ~Live(i) =>
                        /\ NSend(c, "GETPREF") = 0
                        /\ c.exc # "none"
                        /\ api[i].job => c.exc = "InvalidAuthTokenError" /\ c.log = <<>>
                        /\ ~api[i].job => NReset(c) = 1 /\ c.log[1].what = "reset"
                  /\ c.marker[api[i].gstin] <=> c.exc = "none"
                  /\ c.exc = "none" => NSend(c, "GETPREF") = 1 /\ c.ret.nil
                  /\ (Live(i) /\ c.log[1].resp = Ack /\ Len(c.log) = 1) =>
                        \E p \in Validated(i, TRUE) :
                            /\ c.db = p.db /\ c.self = p.self /\ c.cert = p.cert
                            /\ c.marker = p.marker /\ c.hooks = p.hooks
                            /\ c.exc = p.exc /\ c.ret = p.ret

\* the marker is absent and the token live: GETPREF is acknowledged and
\* the marker set, or it fails and the marker stays absent
C15_Witness ==
    \E i \in Insts : Ready(i) /\ ~marker[api[i].gstin] /\ ~api[i].job /\
        /\ Live(i)
        /\ \E c \in validate_auth_token(Ctx(i)) :
              c.log[1].what = "GETPREF" /\ c.log[1].resp = Ack /\ c.marker[api[i].gstin]
        /\ \E c \in validate_auth_token(Ctx(i)) :
              c.exc = "ValidationError" /\ ~c.marker[api[i].gstin]

\* C16: with pipelines for different credentials interleaving, whatever a
\* pipeline writes (the app key generated at setup, the token reset of an
\* authentication without OTP or of the after-job hook, the token, key
\* and expiry of a rotation) changes the record of the gstin it was set
\* up with and leaves the app_key, auth_token, session_key and
\* session_expiry of every other record as they were.
C16_OwnRecordOnly ==
    \A i \in Pipelines :
        LET kept(c) == \A g \in Keys \ {KeyOf(i)} : c.db[g] = db[g]
        IN /\ ~Ready(i) =>
                \A job \in BOOLEAN : \A c \in setup(Ctx(i), KeyOf(i), job) : kept(c)
           /\ Ready(i) =>
                /\ api[i].gstin = KeyOf(i)
                /\ \A otp \in Otps \cup {"none"} :
                      \A c \in autheticate_with_otp(Ctx(i), otp) : kept(c)
                /\ kept(reset_auth_token(Ctx(i)))
                /\ \A r \in TokenResponses(api[i].app_key) :
                      kept(TaxpayerAuthenticate_decrypt_response([Ctx(i) EXCEPT !.ret = r]))

\* both pipelines are set up, the other's record holds a token, key and
\* expiry, and this pipeline's rotation and reset change its own record
C16_Witness ==
    \E i \in Pipelines : \E j \in Pipelines \ {i} :
        /\ Ready(i) /\ Ready(j)
        /\ db[KeyOf(j)].auth_token # NoToken /\ db[KeyOf(j)].session_key # ""
        /\ db[KeyOf(i)].auth_token # NoToken
        /\ \E c \in autheticate_with_otp(Ctx(i), "otp1") :
              c.db[KeyOf(i)].auth_token # db[KeyOf(i)].auth_token
        /\ reset_auth_token(Ctx(i)).db[KeyOf(i)] # db[KeyOf(i)]

\* the context with the object's token cleared, in the record and in the
\* object, and the write logged
Cleared(c) ==
    [c EXCEPT !.db[c.self.gstin].auth_token = NoToken,
              !.self.auth_token = NoToken,
              !.log = Append(@, Entry("db", "reset", c.self.gstin, None_, NoCert))]

\* C17: outside a job, an authentication without OTP (run because there
\* is no live token, or because the business response means
\* authorization_failed) clears the persisted and the in-memory
\* auth_token before its OTP request is sent, and both are null when the
\* call ends, however the OTP request is answered (acknowledged, an
\* ignored error, a fatal error).
C17_ClearedBeforeOtpRequest ==
    \A i \in Insts :
        (Ready(i) /\ ~api[i].job) =>
            /\ autheticate_with_otp(Ctx(i), "none") = request_otp(Cleared(Ctx(i)))
            /\ \A c \in autheticate_with_otp(Ctx(i), "none") :
                  /\ c.log[1].ev = "db" /\ c.log[1].what = "reset"
                  /\ c.db[api[i].gstin].auth_token = NoToken
                  /\ c.self.auth_token = NoToken
            /\ \A args \in OtpArgs : \A c \in _request(Ctx(i), args) :
                  LET b == BusinessAt(c)
                      ran == \/ args.otp = "none" /\ ~Live(i)
                             \/ b > 0 /\ SaysAuthorizationFailed(c.log[b])
                  IN /\ ran <=> NReset(c) = 1
                     /\ ran =>
                          /\ c.db[api[i].gstin].auth_token = NoToken
                          /\ c.self.auth_token = NoToken
                          /\ \E r \in 1..Len(c.log) :
                                /\ c.log[r].ev = "db" /\ c.log[r].what = "reset"
                                /\ \A n \in 1..Len(c.log) :
                                      (c.log[n].ev = "send" /\ c.log[n].what = "OTPREQUEST")
                                          => r < n
                                /\ \A n \in (r + 1)..Len(c.log) : c.log[n].ev # "db"

\* a live token is rejected by the gateway: the token is cleared and the
\* OTP request is acknowledged, answered with an ignored error, or fails
C17_Witness ==
    \E i \in Insts : Ready(i) /\ ~api[i].job /\ Live(i) /\
        /\ db[api[i].gstin].auth_token # NoToken
        /\ \A code \in {"none", "AUTH158", "XYZ999"} :
              \E c \in _request(Ctx(i), NoArgs) :
                  /\ SaysAuthorizationFailed(c.log[1])
                  /\ c.log[Len(c.log)].what = "OTPREQUEST"
                  /\ c.log[Len(c.log)].resp.error_cd = code
                  /\ c.db[api[i].gstin].auth_token = NoToken
                  /\ c.self.auth_token = NoToken

\* C18: an OTP submission sets the "recently authenticated" marker of the
\* gstin only on success: the marker, absent before, is present afterwards
\* only when the AUTHTOKEN response was a success that delivered an
\* auth_token; after a response that means invalid_otp, any other ignored
\* error, or a fatal error, it is still absent.
C18_MarkerOnlyOnSuccess ==
    \A i \in Insts, otp \in Otps :
        (Ready(i) /\ ~marker[api[i].gstin]) =>
            \A c \in autheticate_with_otp(Ctx(i), otp) :
                \A n \in 1..Len(c.log) :
                    (c.log[n].ev = "send" /\ c.log[n].what = "AUTHTOKEN") =>
                        /\ c.log[n].resp.status_cd = 0 => ~c.marker[api[i].gstin]
                        /\ c.marker[api[i].gstin] => c.log[n].resp.auth_token # NoToken

\* C19: the auth-token header of the business request a get/post/put call
\* sends carries the credential's live token at the moment of sending:
\* never an absent value, and, when the call first authenticated with an
\* OTP, the token that authentication issued, not the one held before.
C19_HeaderCarriesCurrentToken ==
    \A i \in Insts, args \in OtpArgs :
        Ready(i) =>
            \A c \in _request(Ctx(i), args) :
                LET b == BusinessAt(c)
                    issued == {n \in 1..(b - 1) : /\ c.log[n].ev = "send"
                                                  /\ c.log[n].what = "AUTHTOKEN"
                                                  /\ c.log[n].resp.auth_token # NoToken}
                IN b > 0 =>
                    /\ c.log[b].tok # NoToken
                    /\ \A n \in issued : c.log[b].tok = c.log[n].resp.auth_token
                    /\ issued = {} => c.log[b].tok = get_auth_token(api[i], now)

\* C20: a get/post/put call given an OTP sends one AUTHTOKEN submission,
\* live token or not, as the first request of the call (unless the
\* certificate for it cannot be had, and then nothing is sent); the
\* business request comes after it, and only when the submission's answer
\* means neither otp_requested nor invalid_otp; after such an answer that
\* did not fail, the business request is sent.
C20_OtpAlwaysSubmitted ==
    \A i \in Insts, otp \in Otps :
        Ready(i) =>
            \A c \in _request(Ctx(i), [NoArgs EXCEPT !.otp = otp]) :
                LET sends == SendsOf(c)
                    b == BusinessAt(c)
                    h == otp_handler(c)
                IN /\ NSend(c, "AUTHTOKEN") <= 1
                   /\ NSend(c, "AUTHTOKEN") = 0 =>
                         /\ sends = <<>> /\ c.exc = "ValidationError"
                         /\ c.log[Len(c.log)].ev = "fetch"
                   /\ NSend(c, "AUTHTOKEN") = 1 =>
                         /\ sends[1].what = "AUTHTOKEN"
                         /\ sends[1].json.otp = aes_encrypt_data(otp, api[i].app_key)
                         /\ (SaysOtpRequested(sends[1]) \/ SaysInvalidOtp(sends[1])) =>
                               b = 0 /\ Len(sends) = 1
                         /\ b > 0 =>
                               /\ sends[2].what = "BUSINESS"
                               /\ ~SaysOtpRequested(sends[1]) /\ ~SaysInvalidOtp(sends[1])
                         /\ (b = 0 /\ ~SaysOtpRequested(sends[1]) /\ ~SaysInvalidOtp(sends[1])) =>
                               /\ c.exc # "none"
                               /\ sends[1].resp.status_cd = 0 \/ sends[1].resp.sek # NoCt

\* with a live token and an OTP given, the submission is sent first and
\* the business request after it
C20_Witness ==
    \E i \in Insts : Ready(i) /\ Live(i) /\
        \E c \in _request(Ctx(i), [NoArgs EXCEPT !.otp = "otp1"]) :
            /\ Len(SendsOf(c)) = 2
            /\ SendsOf(c)[1].what = "AUTHTOKEN"
            /\ SendsOf(c)[1].resp.auth_token \notin {NoToken, api[i].auth_token}
            /\ SendsOf(c)[2].what = "BUSINESS"
            /\ c.exc = "none"

\* a response with the business fields of another laid over it: a rek
\* (none, one that decrypts, one that does not), data, an hmac (none,
\* right, wrong)
WithPayload(r, session_key) ==
    {[r EXCEPT !.rek = k, !.data = d, !.hmac = h]
        : k \in {NoCt, aes_encrypt_data("r1", session_key),
                 [pt |-> "r1", key |-> "kx", pad |-> FALSE]},
          d \in {NoCt, GoodData},
          h \in {NoHmac, hmac_sha256("cDE=", "r1"), hmac_sha256("cDE=", "bad")}}

\* the credential as a context holds it: the record and the object
Credential(c) == <<c.db[c.self.gstin], c.self>>

\* C21: a response carrying auth_token is processed as a rotation and as
\* nothing else: whatever rek, data and hmac it carries, it is processed as
\* the same response without them is (its token, expiry and decrypted sek
\* are stored, or the sek does not decrypt and the call fails with nothing
\* persisted), its data is left in place, no HMAC mismatch is raised and no
\* result is attached.  A response without auth_token, whatever expiry
\* and sek it carries, changes neither the stored nor the in-memory
\* auth_token, session_key and session_expiry.
C21_RotationOnly ==
    \A i \in Insts :
        Ready(i) =>
            /\ \A t \in TokenResponses(api[i].app_key) :
                 \A r \in WithPayload(t, api[i].session_key) :
                    LET c == decrypt_response([Ctx(i) EXCEPT !.ret = r])
                        p == TaxpayerAuthenticate_decrypt_response([Ctx(i) EXCEPT !.ret = t])
                    IN IF t.auth_token # NoToken
                       THEN /\ Credential(c) = Credential(p)
                            /\ c.exc = p.exc
                            /\ c.ret = r
                            /\ c.ret.result = "none"
                            /\ c.thrown.text # "HMAC mismatch"
                            /\ c.exc = "none" =>
                                  /\ c.db[api[i].gstin].auth_token = t.auth_token
                                  /\ c.self.auth_token = t.auth_token
                                  /\ t.expiry # 0 =>
                                        c.db[api[i].gstin].session_expiry = now + t.expiry
                                  /\ t.sek # NoCt =>
                                        c.db[api[i].gstin].session_key
                                            = b64encode(aes_decrypt_data(t.sek, api[i].app_key))
                            /\ c.exc # "none" =>
                                  /\ c.db = db
                                  /\ t.sek # NoCt /\ aes_decrypt_fails(t.sek, api[i].app_key)
                       ELSE /\ Credential(c) = <<db[api[i].gstin], api[i]>>
                            /\ NReset(c) = 0 /\ c.log = <<>>
            /\ \A r \in BusinessResponses(Ctx(i)) \cup ErrorResponses \cup {Ack} :
                 r.auth_token = NoToken =>
                    \A c \in process_response(Ctx(i), r) :
                        Credential(c) = <<db[api[i].gstin], api[i]>>
            /\ \A otp \in Otps : \A c \in autheticate_with_otp(Ctx(i), otp) :
                 \A n \in 1..Len(c.log) :
                    (c.log[n].ev = "send" /\ c.log[n].resp.auth_token = NoToken) =>
                        Credential(c) = <<db[api[i].gstin], api[i]>>

\* a response with a token, a rek that does not decrypt, data and a wrong
\* hmac rotates the credential; one with expiry and sek but no token
\* leaves it
C21_Witness ==
    \E i \in Insts : Ready(i) /\ db[api[i].gstin].auth_token = "t1" /\
        /\ \E t \in TokenResponses(api[i].app_key) :
              /\ t.auth_token = "t2" /\ t.expiry # 0 /\ t.sek # NoCt
              /\ LET r == [t EXCEPT !.rek = [pt |-> "r1", key |-> "kx", pad |-> FALSE],
                                    !.data = GoodData, !.hmac = hmac_sha256("cDE=", "bad")]
                     c == decrypt_response([Ctx(i) EXCEPT !.ret = r])
                 IN c.exc = "none" /\ c.db[api[i].gstin].auth_token = "t2"
                        /\ c.ret.data = GoodData
        /\ \E c \in autheticate_with_otp(Ctx(i), "otp1") :
              /\ c.exc = "none" /\ c.ret.auth_token = NoToken /\ c.ret.sek # NoCt
              /\ c.db = db

\* responses carrying any of auth_token, expiry and sek, or none of them
RotationFields(app_key) ==
    {[RespBase EXCEPT !.auth_token = t, !.expiry = x.expiry, !.sek = x.sek]
        : t \in Tokens \cup {NoToken}, x \in Rotations(app_key)}

\* C22: a rotation writes exactly the fields the response supplies: the
\* persisted auth_token, session_expiry and session_key are each
\* overwritten (with the token, now + expiry, the base64 text of the
\* decrypted sek) when the response carries auth_token, expiry, sek, and
\* each keeps its persisted value when it does not; the app_key is never
\* touched; one write is made when any of the three is supplied and none
\* at all when none is, or when the sek does not decrypt.
C22_PartialUpdate ==
    \A i \in Insts :
        Ready(i) =>
            \A r \in RotationFields(api[i].app_key) :
                LET c == TaxpayerAuthenticate_decrypt_response([Ctx(i) EXCEPT !.ret = r])
                    old == db[api[i].gstin]
                    new == c.db[api[i].gstin]
                    supplied == r.auth_token # NoToken \/ r.expiry # 0 \/ r.sek # NoCt
                IN /\ c.exc = "none" =>
                        /\ new.auth_token = IF r.auth_token # NoToken THEN r.auth_token
                                            ELSE old.auth_token
                        /\ new.session_expiry = IF r.expiry # 0 THEN now + r.expiry
                                                ELSE old.session_expiry
                        /\ new.session_key =
                              IF r.sek # NoCt
                              THEN b64encode(aes_decrypt_data(r.sek, api[i].app_key))
                              ELSE old.session_key
                        /\ new.app_key = old.app_key
                        /\ Len(c.log) = IF supplied THEN 1 ELSE 0
                        /\ ~supplied => c.db = db /\ c.self = api[i]
                   /\ c.exc # "none" => c.db = db /\ c.log = <<>>
                   /\ c.ret = r

\* a record holding a token, a key and an expiry gets a response with a
\* sek only (its key alone changes) and one with a token only
C22_Witness ==
    \E i \in Insts : Ready(i) /\
        LET old == db[api[i].gstin]
            sek_only == [RespBase EXCEPT !.sek = aes_encrypt_data("k2", api[i].app_key)]
            token_only == [RespBase EXCEPT !.auth_token = "t2"]
            after(r) == TaxpayerAuthenticate_decrypt_response(
                            [Ctx(i) EXCEPT !.ret = r]).db[api[i].gstin]
        IN /\ old.auth_token = "t1" /\ old.session_key = "azE=" /\ old.session_expiry > now
           /\ sek_only \in RotationFields(api[i].app_key)
           /\ token_only \in RotationFields(api[i].app_key)
           /\ after(sek_only) = [old EXCEPT !.session_key = "azI="]
           /\ after(token_only) = [old EXCEPT !.auth_token = "t2"]

\* the response of the last request sent in the call
LastResp(c) == SendsOf(c)[Len(SendsOf(c))].resp

\* C23: when a get/post/put call wrapped by otp_handler raises
\* OTPRequestedError or InvalidOTPError, the caller gets no exception but
\* the gateway's response (the last one received, tagged otp_requested or
\* invalid_otp and with the gstin) as the returned value; every other
\* outcome, a normal return or any other exception (InvalidAuthTokenError,
\* a fatal gateway error, an HMAC mismatch, a decryption failure, the
\* AttributeError after an OTP request that was not acknowledged), reaches
\* the caller exactly as the call left it.
C23_OnlyOtpErrorsAbsorbed ==
    \A i \in Insts, args \in OtpArgs :
        Ready(i) =>
            \A c \in _request(Ctx(i), args) :
                LET h == otp_handler(c)
                IN IF c.exc \in {"OTPRequestedError", "InvalidOTPError"}
                   THEN /\ h = [c EXCEPT !.exc = "none", !.ret = c.thrown.body]
                        /\ h.ret.error_type = IF c.exc = "OTPRequestedError"
                                              THEN "otp_requested" ELSE "invalid_otp"
                        /\ h.ret.gstin = api[i].gstin
                        /\ SendsOf(c) # <<>>
                        /\ h.ret = [LastResp(c) EXCEPT !.error_type = h.ret.error_type,
                                                       !.gstin = api[i].gstin]
                   ELSE /\ h = c
                        /\ h.exc \in {"none", "InvalidAuthTokenError", "ValidationError",
                                      "ValueError", "AttributeError"}

\* a background job whose calls end in each way: an OTP submission
\* answered AUTH4033 or RETOTPREQUEST is returned, a call without a usable
\* token, a fatal gateway error and an HMAC mismatch are raised
C23_Witness ==
    \E i \in Insts, otp \in Otps :
        /\ Ready(i) /\ api[i].job /\ Live(i)
        /\ \E c \in _request(Ctx(i), [NoArgs EXCEPT !.otp = otp]) :
              /\ c.exc = "InvalidOTPError"
              /\ otp_handler(c).exc = "none"
              /\ otp_handler(c).ret.error_cd = "AUTH4033"
        /\ \E c \in _request(Ctx(i), [NoArgs EXCEPT !.otp = otp]) :
              /\ c.exc = "OTPRequestedError"
              /\ otp_handler(c).exc = "none"
              /\ otp_handler(c).ret.error_type = "otp_requested"
        /\ \E c \in _request(Ctx(i), NoArgs) :
              /\ c.exc = "InvalidAuthTokenError"
              /\ otp_handler(c) = c
        /\ \E c \in _request(Ctx(i), NoArgs) :
              /\ c.exc = "ValidationError" /\ HmacWrong(LastResp(c))
              /\ otp_handler(c) = c
        /\ \E c \in _request(Ctx(i), NoArgs) :
              /\ c.exc = "ValidationError" /\ LastResp(c).status_cd = 0
              /\ LastResp(c).error_cd \notin DOMAIN IGNORED_ERROR_CODES
              /\ otp_handler(c) = c

\* responses as the classifier can be handed them: either status_cd, every
\* code of the table, an unknown code and none, with and without a message
ClassifierInputs ==
    {[RespBase EXCEPT !.status_cd = s, !.error_cd = code, !.message = m]
        : s \in {0, 1},
          code \in DOMAIN IGNORED_ERROR_CODES \cup {"XYZ999", "none"},
          m \in {"m1", "none"}}

Tagged(r, error_type, gstin) == [r EXCEPT !.error_type = error_type, !.gstin = gstin]

\* C24: handle_error_response classifies a response only when its
\* status_cd is 0, and then by the table: RETOTPREQUEST and EVCREQUEST
\* raise OTPRequestedError and AUTH4033 raises InvalidOTPError, each
\* carrying the response tagged otp_requested or invalid_otp and with the
\* gstin; AUTH158, AUTH4038 and RT-R1R3BAV-1007 leave the response tagged
\* authorization_failed and TEC4002 leaves it tagged invalid_public_key,
\* with the gstin, for the caller (after the one certificate fetch TEC4002
\* causes, which can itself fail); a response whose status_cd is not 0
\* passes through untouched, with no error_type, whatever its error code.
C24_ClassificationTable ==
    \A i \in Insts :
        Ready(i) =>
            \A r \in ClassifierInputs :
                LET c0 == [Ctx(i) EXCEPT !.ret = r]
                    g == api[i].gstin
                IN \A c \in handle_error_response(c0) :
                    /\ r.status_cd # 0 => c = c0 /\ c.ret.error_type = "none"
                    /\ (r.status_cd = 0 /\ r.error_cd \in {"RETOTPREQUEST", "EVCREQUEST"}) =>
                          c = Raise([c0 EXCEPT !.ret = Tagged(r, "otp_requested", g)],
                                    "OTPRequestedError", "none", Tagged(r, "otp_requested", g))
                    /\ (r.status_cd = 0 /\ r.error_cd = "AUTH4033") =>
                          c = Raise([c0 EXCEPT !.ret = Tagged(r, "invalid_otp", g)],
                                    "InvalidOTPError", "none", Tagged(r, "invalid_otp", g))
                    /\ (r.status_cd = 0
                            /\ r.error_cd \in {"AUTH158", "AUTH4038", "RT-R1R3BAV-1007"}) =>
                          c = [c0 EXCEPT !.ret = Tagged(r, "authorization_failed", g),
                                         !.flag = TRUE]
                    /\ (r.status_cd = 0 /\ r.error_cd = "TEC4002") =>
                          /\ c.ret = Tagged(r, "invalid_public_key", g)
                          /\ Len(c.log) = 1 /\ c.log[1].ev = "fetch"
                          /\ c.exc = "none" <=> c.log[1].cert # cert
                          /\ c.exc \in {"none", "ValidationError"}
                    /\ c.ret.error_type # "none" =>
                          /\ r.status_cd = 0
                          /\ r.error_cd \in DOMAIN IGNORED_ERROR_CODES
                          /\ c.ret.error_type = IGNORED_ERROR_CODES[r.error_cd]
                          /\ c.ret.gstin = g

\* one state classifies a response of each kind: the two raised ones, the
\* two returned ones, and an acknowledged response carrying a table code
C24_Witness ==
    \E i \in Insts : Ready(i) /\ cert # NoCert /\
        LET out(s, code) == handle_error_response(
                [Ctx(i) EXCEPT !.ret = [RespBase EXCEPT !.status_cd = s, !.error_cd = code,
                                                        !.message = "m1"]])
        IN /\ \E c \in out(0, "EVCREQUEST") :
                 c.exc = "OTPRequestedError" /\ c.thrown.body.error_type = "otp_requested"
           /\ \E c \in out(0, "AUTH4033") :
                 c.exc = "InvalidOTPError" /\ c.thrown.body.gstin = "g1"
           /\ \E c \in out(0, "RT-R1R3BAV-1007") :
                 c.exc = "none" /\ c.ret.error_type = "authorization_failed"
           /\ \E c \in out(0, "TEC4002") :
                 c.exc = "none" /\ c.ret.error_type = "invalid_public_key" /\ c.cert # cert
           /\ \E c \in out(1, "AUTH158") :
                 c.exc = "none" /\ c.ret.error_type = "none" /\ c.ret.gstin = "none"

\* C25: the reset a background job deferred never destroys a newer token:
\* while the after-job hook of a job that raised InvalidAuthTokenError is
\* pending, whenever another object of the same gstin submits an OTP and
\* persists the token the gateway issued, that token is still the
\* persisted one after the hook has run.
C25_DeferredResetKeepsNewerToken ==
    \A i \in Pipelines, j \in Pipelines, otp \in Otps :
        (i \in after_job /\ j # i /\ Ready(j) /\ api[j].gstin = api[i].gstin) =>
            \A c \in autheticate_with_otp(Ctx(j), otp) :
                (c.exc = "none" /\ c.ret.auth_token # NoToken
                     /\ c.db[api[j].gstin].auth_token = c.ret.auth_token) =>
                    reset_auth_token([Ctx(i) EXCEPT !.db = c.db]).db[api[i].gstin].auth_token
                        = c.ret.auth_token

\* the n-th entry of a FilesAPI log is a fetch whose file does not hash to
\* the hash the batch declares for its URL
Mismatch(f, n) ==
    /\ f.log[n].ev = "get"
    /\ hash_sha256(f.log[n].file) # UrlRow(f.log[n].ul).hash

\* the rows of the files decrypted and merged before the n-th log entry
MergedBefore(f, n) ==
    UNION {json_loads(b64decode(aes_decrypt_data(f.log[m].file, FileKey)))
           : m \in {m \in 1..(n - 1) : f.log[m].ev = "decrypt"}}

\* C26: in a download, when a fetched file's SHA-256 hash differs from the
\* hash declared for its URL, get_all and the get_files call around it fail
\* with the "Hash of file doesn't match" error: nothing is returned, that
\* fetch is the last thing the FilesAPI object does (the file is not
\* decrypted, no later URL is fetched), and what was merged is what the
\* files before it held.
C26_HashMismatchAborts ==
    \A i \in Insts, otp \in Otps \cup {"none"} :
        Ready(i) =>
            \A p \in get_files(Ctx(i), otp) :
                \A n \in 1..Len(p.files.log) :
                    Mismatch(p.files, n) =>
                        LET f == p.files
                            ul == f.log[n].ul
                        IN /\ f.exc = "ValidationError"
                           /\ f.thrown = "Hash of file doesn't match for " \o ToString(ul)
                           /\ p.call.exc = "ValidationError"
                           /\ p.call.thrown.text = f.thrown
                           /\ ~f.returned
                           /\ n = Len(f.log)
                           /\ \A m \in 1..Len(f.log) :
                                 /\ f.log[m].ev = "decrypt" => f.log[m].ul < ul
                                 /\ f.log[m].ev = "get" => f.log[m].ul <= ul
                           /\ Cardinality({m \in 1..Len(f.log) : f.log[m].ev = "get"}) = ul
                           /\ f.response = MergedBefore(f, n)
                           /\ f.response = 1..(ul - 1)

\* a batch of three files whose second file arrives corrupted: the first
\* was merged, the third is never fetched; and the same batch, all files
\* intact, is returned merged
C26_Witness ==
    \E i \in Insts : Ready(i) /\
        /\ \E p \in get_files(Ctx(i), "none") :
              /\ Len(p.files.log) = 3
              /\ Mismatch(p.files, 3)
              /\ p.files.log[3].ul = 2
              /\ p.files.log[3].file = Corrupted(2)
              /\ p.files.response = {1}
              /\ p.call.exc = "ValidationError"
        /\ \E p \in get_files(Ctx(i), "none") :
              /\ p.files.returned /\ p.files.ret = {1, 2, 3}
              /\ p.call.exc = "none"

====
